---- MODULE Spec2Model ----
(***************************************************************************)
(* Model of the address matcher (lib/address-matcher.ts, kept under        *)
(* src/unnamed/part_005): the name normalizer, the similarity scorer, the  *)
(* reference index, the single-record matcher and the batch orchestrator.  *)
(*                                                                         *)
(* Strings are sequences of characters; a character is written as a TLA+   *)
(* string holding its pinyin ("Shi" is the city suffix, "Qu" the district  *)
(* suffix, ...), "a", "b", ... are characters that belong to no suffix and *)
(* " " is a blank.  Scores are exact rationals scaled by Unit.             *)
(***************************************************************************)
EXTENDS Integers, Sequences, FiniteSets, TLC

VARIABLES
    addressData,           \* this.addressData: the reference catalog
    index,                 \* this.index: the reference index built by the constructor
    cachedJunboAddresses,  \* this.cachedJunboAddresses; set = FALSE is null
    operInputs,            \* the input records of the request being served
    results,               \* what the last batchMatch(operInputs) returned
    matchResult,           \* what the last match(operInputs[input]) returned
    str1,                  \* first string handed to normalizeName / similarity
    str2,                  \* second string handed to similarity
    strOut,                \* what the last string operation returned
    cachedMatcher,         \* the upload handler's cachedMatcher: 0 is null, else an instance
    callerPc,              \* where each request stands in getMatcher
    loadCalls,             \* calls of loadAddressData made so far
    constructed,           \* AddressMatcher instances constructed so far
    returned,              \* the instance getMatcher returned to each request, 0 for none yet
    sheet,                 \* the first worksheet of the workbook last uploaded or written
    readBack,              \* what the last readExcel returned
    asyncResults,          \* what the last batchMatchAsync(operInputs) resolved to
    matcherLoadPromise,    \* export.ts matcherLoadPromise: 0 is null, else a promise
    cachedAddressData,     \* export.ts cachedAddressData: FALSE is null
    promises,              \* the promises of the builds started: their states
    awaited                \* the promise each request awaits in getMatcher, 0 for none

matcherVars == <<addressData, index, cachedJunboAddresses, operInputs, results, matchResult>>

strVars == <<str1, str2, strOut>>

handlerVars == <<cachedMatcher, callerPc, loadCalls, constructed, returned>>

excelVars == <<sheet, readBack>>

asyncVars == <<asyncResults>>

exportVars == <<matcherLoadPromise, cachedAddressData, promises, awaited>>

vars == <<addressData, index, cachedJunboAddresses, operInputs, results, matchResult,
          str1, str2, strOut,
          cachedMatcher, callerPc, loadCalls, constructed, returned, sheet, readBack,
          asyncResults, matcherLoadPromise, cachedAddressData, promises, awaited>>

----------------------------------------------------------------------------
(* Bounds of the model. *)

\* longest string drawn for the pure string functions
MaxStrLen == 3

\* most input records of a request drawn freely
MaxInputs == 2

\* most input records drawn freely behind a run of filler records
MaxFilled == 1

\* most requests that call getMatcher concurrently
MaxCallers == 4

\* characters the strings of the string specifications are drawn from
StrAlphabet == {"a", "b", "Di", "Shi", "Qu"}

\* characters the strings of the normalizer specification are drawn from
NormAlphabet == {"a", " ", "Di", "Shi", "Qu", "Zhen"}

----------------------------------------------------------------------------
(* String helpers: what the JavaScript string methods do. *)

\* no string operation has been called yet
NoCall == [op |-> "none"]

Min(a, b) == IF a < b THEN a ELSE b

Max(a, b) == IF a > b THEN a ELSE b

\* s.endsWith(suf), the test behind a /suf$/ pattern
EndsWith(s, suf) ==
    /\ Len(suf) <= Len(s)
    /\ SubSeq(s, Len(s) - Len(suf) + 1, Len(s)) = suf

\* s.startsWith(pre)
StartsWith(s, pre) ==
    /\ Len(pre) <= Len(s)
    /\ SubSeq(s, 1, Len(pre)) = pre

\* s.includes(sub)
Includes(s, sub) ==
    \E i \in 0..(Len(s) - Len(sub)) : SubSeq(s, i + 1, i + Len(sub)) = sub

\* s.replace(/suf$/, '')
StripSuffix(s, suf) ==
    IF EndsWith(s, suf) THEN SubSeq(s, 1, Len(s) - Len(suf)) ELSE s

RECURSIVE TrimLeft(_)
TrimLeft(s) ==
    IF s # <<>> /\ Head(s) = " " THEN TrimLeft(Tail(s)) ELSE s

RECURSIVE TrimRight(_)
TrimRight(s) ==
    IF s # <<>> /\ s[Len(s)] = " " THEN TrimRight(SubSeq(s, 1, Len(s) - 1)) ELSE s

\* s.trim()
Trim(s) == TrimRight(TrimLeft(s))

\* all strings over alphabet of length at most n
RECURSIVE StringsUpTo(_, _)
StringsUpTo(alphabet, n) ==
    IF n = 0 THEN {<<>>}
    ELSE LET shorter == StringsUpTo(alphabet, n - 1)
         IN  shorter \cup {Append(s, c) : s \in shorter, c \in alphabet}

----------------------------------------------------------------------------
(* normalizeName *)

\* the suffixes normalizeName removes, in the order of its replace chain
NameSuffixes ==
    << <<"Bu", "Yi1", "Zu", "Miao", "Zu", "Zi", "Zhi", "Zhou">>,
       <<"Miao", "Zu", "Dong", "Zu", "Zi", "Zhi", "Zhou">>,
       <<"Wei", "Wu", "Er", "Zi", "Zhi", "Qu">>,
       <<"Hui", "Zu", "Zi", "Zhi", "Qu">>,
       <<"Zhuang", "Zu", "Zi", "Zhi", "Qu">>,
       <<"Zang", "Zu", "Zi", "Zhi", "Zhou">>,
       <<"Yi2", "Zu", "Zi", "Zhi", "Zhou">>,
       <<"Chao", "Xian1", "Zu", "Zi", "Zhi", "Zhou">>,
       <<"Meng", "Gu", "Zu", "Zi", "Zhi", "Zhou">>,
       <<"Ha", "Sa", "Ke", "Zu", "Zi", "Zhi", "Zhou">>,
       <<"Dai", "Zu", "Jing", "Po", "Zu", "Zi", "Zhi", "Zhou">>,
       <<"Ha", "Ni", "Zu", "Yi2", "Zu", "Zi", "Zhi", "Zhou">>,
       <<"Te", "Bie", "Xing", "Zheng", "Qu">>,
       <<"Zi", "Zhi", "Qu">>,
       <<"Zi", "Zhi", "Zhou">>,
       <<"Di", "Qu">>,
       <<"Sheng">>,
       <<"Shi">>,
       <<"Qu">>,
       <<"Xian">>,
       <<"Zhen">> >>

\* the replace chain from its k-th replace on
RECURSIVE ReplaceChain(_, _)
ReplaceChain(s, k) ==
    IF k > Len(NameSuffixes) THEN s
    ELSE ReplaceChain(StripSuffix(s, NameSuffixes[k]), k + 1)

normalizeName(name) ==
    IF name = <<>> THEN <<>> ELSE Trim(ReplaceChain(name, 1))

----------------------------------------------------------------------------
(* Scores.  The code computes with floating point numbers in [0, 1]; the   *)
(* model keeps each score as the exact rational score * Unit, Unit chosen  *)
(* so that every quotient the code forms (by a string length, by 100, by   *)
(* 4) is an integer.                                                       *)

RECURSIVE Gcd(_, _)
Gcd(a, b) == IF b = 0 THEN a ELSE Gcd(b, a % b)

RECURSIVE LcmUpTo(_)
LcmUpTo(n) ==
    IF n <= 1 THEN 1
    ELSE LET l == LcmUpTo(n - 1) IN (l * n) \div Gcd(l, n)

\* the longest string a length quotient is formed with
LongestString == Max(MaxStrLen, 8)

Unit == 400 * LcmUpTo(LongestString)

\* k hundredths, as a score
Pct(k) == (k * Unit) \div 100

----------------------------------------------------------------------------
(* levenshteinDistance *)

\* row i of the table, filled left to right; prev is row i - 1 and ch is
\* str1[i - 1]; position j + 1 of a row holds dp[i][j]
RECURSIVE LevFillRow(_, _, _, _)
LevFillRow(row, prev, ch, s2) ==
    IF Len(row) = Len(s2) + 1 THEN row
    ELSE LET j == Len(row)
             v == IF ch = s2[j]
                  THEN prev[j]
                  ELSE Min(Min(prev[j + 1] + 1, row[j] + 1), prev[j] + 1)
         IN  LevFillRow(Append(row, v), prev, ch, s2)

RECURSIVE LevRows(_, _, _, _)
LevRows(prev, i, s1, s2) ==
    IF i > Len(s1) THEN prev
    ELSE LevRows(LevFillRow(<<i>>, prev, s1[i], s2), i + 1, s1, s2)

levenshteinDistance(s1, s2) ==
    LevRows([j \in 1..(Len(s2) + 1) |-> j - 1], 1, s1, s2)[Len(s2) + 1]

----------------------------------------------------------------------------
(* similarity.  The operators below take the values the code binds to      *)
(* locals (normalized1, normalized2, minLen, maxLen) as parameters.        *)

\* the score of a containment between the normalized forms
ContainmentScore(normalized1, normalized2, minLen, maxLen) ==
    IF minLen >= 2
    THEN IF StartsWith(normalized1, normalized2) \/ StartsWith(normalized2, normalized1)
         THEN Min(Pct(95), (95 * minLen * Unit) \div (100 * maxLen) + Pct(10))
         ELSE Min(Pct(90), (90 * minLen * Unit) \div (100 * maxLen) + Pct(5))
    ELSE (80 * minLen * Unit) \div (100 * maxLen)

\* 1 - distance / maxLen on the raw strings, the edit distance divided by the
\* shorter length
EditScoreByShorter(s1, s2) ==
    Unit - (levenshteinDistance(s1, s2) * Unit) \div Min(Len(s1), Len(s2))

\* 1 - distance / maxLen on the raw strings
EditScore(s1, s2) ==
    Unit - (levenshteinDistance(s1, s2) * Unit) \div Max(Len(s1), Len(s2))

\* similarity from the normalized forms on, the prefix tested in one
\* direction only
SimilarityNormalizedOneSided(s1, s2, normalized1, normalized2) ==
    IF normalized1 = normalized2 THEN Unit
    ELSE IF Includes(normalized1, normalized2) \/ Includes(normalized2, normalized1)
    THEN IF Min(Len(normalized1), Len(normalized2)) >= 2 /\ ~StartsWith(normalized1, normalized2)
         THEN Min(Pct(90), (90 * Min(Len(normalized1), Len(normalized2)) * Unit)
                               \div (100 * Max(Len(normalized1), Len(normalized2))) + Pct(5))
         ELSE ContainmentScore(normalized1, normalized2,
                               Min(Len(normalized1), Len(normalized2)),
                               Max(Len(normalized1), Len(normalized2)))
    ELSE EditScore(s1, s2)

\* similarity from the normalized forms on, the edit distance taken between
\* the normalized forms
SimilarityNormalizedEditNormalized(s1, s2, normalized1, normalized2) ==
    IF normalized1 = normalized2 THEN Unit
    ELSE IF Includes(normalized1, normalized2) \/ Includes(normalized2, normalized1)
    THEN ContainmentScore(normalized1, normalized2,
                          Min(Len(normalized1), Len(normalized2)),
                          Max(Len(normalized1), Len(normalized2)))
    ELSE EditScore(normalized1, normalized2)

\* similarity from the normalized forms on
SimilarityNormalized(s1, s2, normalized1, normalized2) ==
    IF normalized1 = normalized2 THEN Unit
    ELSE IF Includes(normalized1, normalized2) \/ Includes(normalized2, normalized1)
    THEN ContainmentScore(normalized1, normalized2,
                          Min(Len(normalized1), Len(normalized2)),
                          Max(Len(normalized1), Len(normalized2)))
    ELSE EditScore(s1, s2)

similarity(s1, s2) ==
    IF s1 = <<>> \/ s2 = <<>> THEN 0
    ELSE IF s1 = s2 THEN Unit
    ELSE SimilarityNormalized(s1, s2, normalizeName(s1), normalizeName(s2))

----------------------------------------------------------------------------
(* The reference catalog (JunboAddressData).  A catalog maps a key to the  *)
(* entries of the object stored under it, in the order Object.entries      *)
(* yields them: the key "0000" to the provinces, a province code to its    *)
(* cities, a city code to its districts.  Codes are strings of digits, so  *)
(* Object.entries yields them in ascending numeric order.                  *)

Code(a, b) == <<a, b>>

RootKey == <<"0", "0", "0", "0">>

\* one property of a catalog object: its key and its value (a name)
Entry(code, name) == [code |-> code, isString |-> TRUE, value |-> name]

\* province bc-Sheng with the cities defg-Shi (districts hi-Qu, g-Xian) and
\* ab-Shi (district hi-Qu); province a-Sheng with the city ab-Shi (district
\* cdefghi-Qu).  The codes ascend while the names do not, a district name
\* occurs under two cities and a city name under two provinces.
CatalogA ==
    (RootKey :> << Entry(Code("1", "1"), <<"b", "c", "Sheng">>),
                   Entry(Code("1", "2"), <<"a", "Sheng">>) >>)
    @@ (Code("1", "1") :> << Entry(Code("2", "1"), <<"d", "e", "f", "g", "Shi">>),
                             Entry(Code("2", "2"), <<"a", "b", "Shi">>) >>)
    @@ (Code("1", "2") :> << Entry(Code("2", "3"), <<"a", "b", "Shi">>) >>)
    @@ (Code("2", "1") :> << Entry(Code("3", "1"), <<"h", "i", "Qu">>),
                             Entry(Code("3", "2"), <<"g", "Xian">>) >>)
    @@ (Code("2", "2") :> << Entry(Code("3", "3"), <<"h", "i", "Qu">>) >>)
    @@ (Code("2", "3") :> << Entry(Code("3", "4"),
                                   <<"c", "d", "e", "f", "g", "h", "i", "Qu">>) >>)

\* a property of a catalog object whose value is not a string
Other(code) == [code |-> code, isString |-> FALSE, value |-> <<>>]

\* the leaf bc-Sheng / defg-Shi / hi-Qu among branches that hold no leaf: the
\* province a-Sheng without cities, the city ab-Shi without districts, and a
\* province, a city and a district whose values are not strings
CatalogB ==
    (RootKey :> << Entry(Code("1", "1"), <<"b", "c", "Sheng">>),
                   Entry(Code("1", "2"), <<"a", "Sheng">>),
                   Other(Code("1", "3")) >>)
    @@ (Code("1", "1") :> << Entry(Code("2", "1"), <<"d", "e", "f", "g", "Shi">>),
                             Entry(Code("2", "2"), <<"a", "b", "Shi">>),
                             Other(Code("2", "4")) >>)
    @@ (Code("1", "3") :> << Entry(Code("2", "5"), <<"z", "Shi">>) >>)
    @@ (Code("2", "1") :> << Entry(Code("3", "1"), <<"h", "i", "Qu">>),
                             Other(Code("3", "5")) >>)
    @@ (Code("2", "4") :> << Entry(Code("3", "6"), <<"z", "Qu">>) >>)

Catalogs == {CatalogA, CatalogB}

\* a catalog whose city code holds the character the code key is joined
\* with: the leaf bc-Sheng / defg-Shi / hi-Qu under the codes 11, 2-1, 31
CatalogDashed ==
    (RootKey :> << Entry(Code("1", "1"), <<"b", "c", "Sheng">>) >>)
    @@ (Code("1", "1") :> << Entry(<<"2", "-", "1">>, <<"d", "e", "f", "g", "Shi">>) >>)
    @@ (<<"2", "-", "1">> :> << Entry(Code("3", "1"), <<"h", "i", "Qu">>) >>)

\* the decimal digits as characters
Digit(k) == <<"0", "1", "2", "3", "4", "5", "6", "7", "8", "9">>[k + 1]

\* the provinces of the wide catalog, the cities of each and the districts
\* of each city
WideSide == 6

\* a catalog of WideSide provinces with WideSide cities each and WideSide
\* districts each, more leaves than a chunk of either batchMatch: the codes
\* ascend while the names descend, and the provinces share the names of
\* their cities, the cities those of their districts
CatalogWide ==
    [key \in {RootKey}
            \cup { <<"1", Digit(p)>> : p \in 1..WideSide }
            \cup { <<"2", Digit(p), Digit(c)>> : p, c \in 1..WideSide } |->
        IF key = RootKey
        THEN [p \in 1..WideSide |->
                 Entry(<<"1", Digit(p)>>, <<"x", Digit(9 - p), "Sheng">>)]
        ELSE IF Len(key) = 2
        THEN [c \in 1..WideSide |->
                 Entry(<<"2", key[2], Digit(c)>>, <<"y", Digit(9 - c), "Shi">>)]
        ELSE [d \in 1..WideSide |->
                 Entry(<<"3", key[2], key[3], Digit(d)>>, <<"h", Digit(9 - d), "Qu">>)]]

\* data[key] || {}
EntriesOf(data, key) == IF key \in DOMAIN data THEN data[key] ELSE <<>>

\* data[key]?.[code]: the value stored under code, <<>> when there is none
RECURSIVE ValueIn(_, _)
ValueIn(entries, code) ==
    IF entries = <<>> THEN <<>>
    ELSE IF Head(entries).code = code
         THEN (IF Head(entries).isString THEN Head(entries).value ELSE <<>>)
         ELSE ValueIn(Tail(entries), code)

----------------------------------------------------------------------------
(* buildIndex: three Maps keyed by name.  A Map is the sequence of its     *)
(* entries in insertion order; setting a key that is present replaces its  *)
(* value in place.                                                         *)

RECURSIVE MapSet(_, _)
MapSet(map, entry) ==
    IF map = <<>> THEN <<entry>>
    ELSE IF Head(map).name = entry.name THEN <<entry>> \o Tail(map)
    ELSE <<Head(map)>> \o MapSet(Tail(map), entry)

\* Map.get(name): the entry, or NoEntry
NoEntry == [name |-> <<>>, code |-> <<>>, provinceCode |-> <<>>, cityCode |-> <<>>]

RECURSIVE MapGet(_, _)
MapGet(map, name) ==
    IF map = <<>> THEN NoEntry
    ELSE IF Head(map).name = name THEN Head(map)
    ELSE MapGet(Tail(map), name)

\* the loops of buildIndex: each iteration hands the index it has updated, as
\* a value, to the iterations after it

\* districts.set(districtName, ...) under typeof districtName === 'string'
SetDistrict(idx, e, provinceCode, cityCode) ==
    IF e.isString
    THEN [idx EXCEPT !.districts =
             MapSet(@, [name |-> e.value, code |-> e.code,
                        provinceCode |-> provinceCode, cityCode |-> cityCode])]
    ELSE idx

RECURSIVE IndexDistricts(_, _, _, _)
IndexDistricts(idx, entries, provinceCode, cityCode) ==
    IF entries = <<>> THEN idx
    ELSE CHOOSE last \in
             { IndexDistricts(next, Tail(entries), provinceCode, cityCode) :
                 next \in {SetDistrict(idx, Head(entries), provinceCode, cityCode)} } :
             TRUE

\* the city with the districts below it entered whatever the value of the city
SetCityBelowAny(idx, data, e, provinceCode) ==
    IndexDistricts(
        IF e.isString
        THEN [idx EXCEPT !.cities =
                 MapSet(@, [name |-> e.value, code |-> e.code,
                            provinceCode |-> provinceCode, cityCode |-> <<>>])]
        ELSE idx,
        EntriesOf(data, e.code), provinceCode, e.code)

\* cities.set(cityName, ...) and the loop over the districts of the city
SetCity(idx, data, e, provinceCode) ==
    IF e.isString
    THEN IndexDistricts(
             [idx EXCEPT !.cities =
                 MapSet(@, [name |-> e.value, code |-> e.code,
                            provinceCode |-> provinceCode, cityCode |-> <<>>])],
             EntriesOf(data, e.code), provinceCode, e.code)
    ELSE idx

RECURSIVE IndexCities(_, _, _, _)
IndexCities(idx, data, entries, provinceCode) ==
    IF entries = <<>> THEN idx
    ELSE CHOOSE last \in
             { IndexCities(next, data, Tail(entries), provinceCode) :
                 next \in {SetCity(idx, data, Head(entries), provinceCode)} } :
             TRUE

\* provinces.set(provinceName, ...) and the loop over the cities of the province
SetProvince(idx, data, e) ==
    IF e.isString
    THEN IndexCities(
             [idx EXCEPT !.provinces =
                 MapSet(@, [name |-> e.value, code |-> e.code,
                            provinceCode |-> <<>>, cityCode |-> <<>>])],
             data, EntriesOf(data, e.code), e.code)
    ELSE idx

RECURSIVE IndexProvinces(_, _, _)
IndexProvinces(idx, data, entries) ==
    IF entries = <<>> THEN idx
    ELSE CHOOSE last \in
             { IndexProvinces(next, data, Tail(entries)) :
                 next \in {SetProvince(idx, data, Head(entries))} } :
             TRUE

buildIndex(data) ==
    IndexProvinces([provinces |-> <<>>, cities |-> <<>>, districts |-> <<>>],
                   data, EntriesOf(data, RootKey))

----------------------------------------------------------------------------
(* generateAllJunboAddresses: the walk province, city, district. *)

\* the walk over the districts of a city that stops behind the first district
WalkDistrictsFirstOnly(entries, province, city) ==
    IF entries = <<>> \/ ~Head(entries).isString THEN <<>>
    ELSE << [provinceCode |-> province.code, provinceName |-> province.value,
             cityCode |-> city.code, cityName |-> city.value,
             districtCode |-> Head(entries).code,
             districtName |-> Head(entries).value] >>

RECURSIVE WalkDistricts(_, _, _)
WalkDistricts(entries, province, city) ==
    IF entries = <<>> THEN <<>>
    ELSE LET e == Head(entries)
         IN  (IF e.isString
              THEN << [provinceCode |-> province.code, provinceName |-> province.value,
                       cityCode |-> city.code, cityName |-> city.value,
                       districtCode |-> e.code, districtName |-> e.value] >>
              ELSE <<>>)
             \o WalkDistricts(Tail(entries), province, city)

RECURSIVE WalkCities(_, _, _)
WalkCities(data, entries, province) ==
    IF entries = <<>> THEN <<>>
    ELSE LET e == Head(entries)
         IN  (IF e.isString
              THEN WalkDistricts(EntriesOf(data, e.code), province, e)
              ELSE <<>>)
             \o WalkCities(data, Tail(entries), province)

RECURSIVE WalkProvinces(_, _)
WalkProvinces(data, entries) ==
    IF entries = <<>> THEN <<>>
    ELSE LET e == Head(entries)
         IN  (IF e.isString
              THEN WalkCities(data, EntriesOf(data, e.code), e)
              ELSE <<>>)
             \o WalkProvinces(data, Tail(entries))

\* cache is this.cachedJunboAddresses: [set |-> FALSE] is null
generateAllJunboAddresses(data, cache) ==
    IF cache.set THEN cache.list
    ELSE WalkProvinces(data, EntriesOf(data, RootKey))

----------------------------------------------------------------------------
(* Input records (OperAddressInput).  The six fields of the source are     *)
(* provinceName, provinceCode (the province name and code columns),        *)
(* cityName, cityCode, districtName, districtCode; '' is <<>>.  An input   *)
(* record is known by its position in operInputs: the Maps and the Set of  *)
(* the source hold references to the records, not their contents.         *)

OperInput(pn, pc, cn, cc, dn, dc) ==
    [provinceName |-> pn, provinceCode |-> pc, cityName |-> cn, cityCode |-> cc,
     districtName |-> dn, districtCode |-> dc]

\* `${provinceCode}-${cityCode}-${districtCode}`
CodeKey(pc, cc, dc) == pc \o <<"-">> \o cc \o <<"-">> \o dc

\* getNormalized: normalizeName behind a cache keyed by the raw name
getNormalized(name) == IF name = <<>> THEN <<>> ELSE normalizeName(name)

\* the key under which the index loop of batchMatch files a record in the
\* Map named by level
IndexKeyOf(r, level) ==
    CASE level = "provinceCode" -> r.provinceCode
      [] level = "cityCode"     -> r.cityCode
      [] level = "districtCode" -> r.districtCode
      [] level = "provinceName" -> getNormalized(r.provinceName)
      [] level = "cityName"     -> getNormalized(r.cityName)
      [] level = "districtName" -> getNormalized(r.districtName)

\* the positions from i on whose key is k, ascending
RECURSIVE PositionsWithKey(_, _, _, _)
PositionsWithKey(inputs, level, k, i) ==
    IF i > Len(inputs) THEN <<>>
    ELSE (IF IndexKeyOf(inputs[i], level) = k THEN <<i>> ELSE <<>>)
         \o PositionsWithKey(inputs, level, k, i + 1)

\* a Map<string, OperAddressInput[]> built by the indexing loop of batchMatch:
\* records with an empty key are left out
IndexBy(inputs, level) ==
    [k \in {IndexKeyOf(inputs[i], level) : i \in 1..Len(inputs)} \ {<<>>} |->
        PositionsWithKey(inputs, level, k, 1)]

HasAllCodes(r) == r.provinceCode # <<>> /\ r.cityCode # <<>> /\ r.districtCode # <<>>

FullKeyOf(r) ==
    IF HasAllCodes(r) THEN CodeKey(r.provinceCode, r.cityCode, r.districtCode) ELSE <<>>

\* operInputsByCode: Map.set overwrites, so the last record with a key stays
BuildByCode(inputs) ==
    [k \in {FullKeyOf(inputs[i]) : i \in 1..Len(inputs)} \ {<<>>} |->
        CHOOSE i \in 1..Len(inputs) :
            /\ FullKeyOf(inputs[i]) = k
            /\ \A j \in 1..Len(inputs) : FullKeyOf(inputs[j]) = k => j <= i]

\* the seven Maps batchMatch builds over the input records
BuildInputIndexes(inputs) ==
    [operInputsByCode         |-> BuildByCode(inputs),
     operInputsByProvinceCode |-> IndexBy(inputs, "provinceCode"),
     operInputsByCityCode     |-> IndexBy(inputs, "cityCode"),
     operInputsByDistrictCode |-> IndexBy(inputs, "districtCode"),
     operInputsByProvinceName |-> IndexBy(inputs, "provinceName"),
     operInputsByCityName     |-> IndexBy(inputs, "cityName"),
     operInputsByDistrictName |-> IndexBy(inputs, "districtName")]

\* Map.get of a list Map: <<>> when the key is absent
ListGet(map, k) == IF k \in DOMAIN map THEN map[k] ELSE <<>>

----------------------------------------------------------------------------
(* getCandidateInputs *)

\* the number of code-index candidates from which the name indexes are skipped
CandidateThreshold == 10

\* items.forEach(input => candidateSet.add(input)): a Set keeps insertion order
RECURSIVE AddAll(_, _)
AddAll(set, items) ==
    IF items = <<>> THEN set
    ELSE AddAll(IF \E i \in 1..Len(set) : set[i] = Head(items)
                THEN set ELSE Append(set, Head(items)),
                Tail(items))

\* the records of some list of the index added, whatever the key
AddFromAnyKey(set, map, key) ==
    IF DOMAIN map # {} THEN AddAll(set, map[CHOOSE k \in DOMAIN map : TRUE]) ELSE set

\* if (key) { const inputs = map.get(key); if (inputs) inputs.forEach(add) }
AddFromIndex(set, map, key) ==
    IF key # <<>> THEN AddAll(set, ListGet(map, key)) ELSE set

\* the candidates the three code indexes yield
CodeCandidates(junbo, idx) ==
    AddFromIndex(
        AddFromIndex(
            AddFromIndex(<<>>, idx.operInputsByDistrictCode, junbo.districtCode),
            idx.operInputsByCityCode, junbo.cityCode),
        idx.operInputsByProvinceCode, junbo.provinceCode)

\* the candidates with those of the three name indexes added
NameCandidates(junbo, idx, set) ==
    AddFromIndex(
        AddFromIndex(
            AddFromIndex(set, idx.operInputsByDistrictName,
                         getNormalized(junbo.districtName)),
            idx.operInputsByCityName, getNormalized(junbo.cityName)),
        idx.operInputsByProvinceName, getNormalized(junbo.provinceName))

\* the name indexes probed also with exactly the threshold's number of candidates
WithNameCandidatesAtThreshold(junbo, idx, candidateSet) ==
    IF Len(candidateSet) <= CandidateThreshold
    THEN NameCandidates(junbo, idx, candidateSet)
    ELSE candidateSet

\* if (candidateSet.size < 10) { ...name indexes... }
WithNameCandidates(junbo, idx, candidateSet) ==
    IF Len(candidateSet) < CandidateThreshold
    THEN NameCandidates(junbo, idx, candidateSet)
    ELSE candidateSet

\* getCandidateInputs with the name indexes never probed
getCandidateInputsCodesOnly(junbo, idx) == CodeCandidates(junbo, idx)

getCandidateInputs(junbo, idx) ==
    WithNameCandidates(junbo, idx, CodeCandidates(junbo, idx))

----------------------------------------------------------------------------
(* matchOperAddressFromJunboOptimized: the score of one candidate.  A      *)
(* scoring state holds the locals of the loop body: score, method,         *)
(* provinceMatched, cityMatched, districtExactMatch, districtFuzzyMatch.   *)
(* The operators take the normalized names the code binds to locals        *)
(* (normalizedJunboProvince, normalizedOper, ...) as parameters.           *)

\* method === 'none' ? to : method
IfNone(method, to) == IF method = "none" THEN to ELSE method

ScoreStart ==
    [score |-> 0, method |-> "none", provinceMatched |-> FALSE, cityMatched |-> FALSE,
     districtExactMatch |-> FALSE, districtFuzzyMatch |-> FALSE]

\* if (similarity >= 0.7) at the province level
ProvinceFuzzy(s, sim) ==
    IF sim >= Pct(70)
    THEN [s EXCEPT !.score = @ + sim \div 4, !.method = IfNone(@, "fuzzy"),
                   !.provinceMatched = TRUE]
    ELSE s

ProvinceByName(s, normalizedOper, normalizedJunboProvince) ==
    IF normalizedOper = normalizedJunboProvince
    THEN [s EXCEPT !.score = @ + Pct(25), !.method = IfNone(@, "exact"),
                   !.provinceMatched = TRUE]
    ELSE IF normalizedOper # <<>> /\ normalizedJunboProvince # <<>>
    THEN ProvinceFuzzy(s, similarity(normalizedOper, normalizedJunboProvince))
    ELSE s

\* 1. the province level
ScoreProvince(s, junbo, operInput, normalizedJunboProvince) ==
    IF operInput.provinceCode # <<>> /\ operInput.provinceCode = junbo.provinceCode
    THEN [s EXCEPT !.score = @ + Pct(25), !.method = "code", !.provinceMatched = TRUE]
    ELSE IF operInput.provinceName # <<>> /\ operInput.provinceName = junbo.provinceName
    THEN [s EXCEPT !.score = @ + Pct(25), !.method = IfNone(@, "exact"),
                   !.provinceMatched = TRUE]
    ELSE IF operInput.provinceName # <<>> /\ normalizedJunboProvince # <<>>
    THEN ProvinceByName(s, getNormalized(operInput.provinceName), normalizedJunboProvince)
    ELSE s

\* if (similarity >= 0.7) at the city level
CityFuzzy(s, sim) ==
    IF sim >= Pct(70)
    THEN [s EXCEPT !.score = @ + sim \div 4, !.cityMatched = TRUE]
    ELSE s

CityByName(s, normalizedOper, normalizedJunboCity) ==
    IF normalizedOper = normalizedJunboCity
    THEN [s EXCEPT !.score = @ + Pct(25), !.method = IfNone(@, "exact"),
                   !.cityMatched = TRUE]
    ELSE IF normalizedOper # <<>> /\ normalizedJunboCity # <<>>
    THEN IF Includes(normalizedOper, normalizedJunboCity)
            \/ Includes(normalizedJunboCity, normalizedOper)
         THEN IF Min(Len(normalizedOper), Len(normalizedJunboCity)) >= 2
              THEN IF StartsWith(normalizedOper, normalizedJunboCity)
                      \/ StartsWith(normalizedJunboCity, normalizedOper)
                   THEN [s EXCEPT !.score = @ + Pct(95) \div 4,
                                  !.method = IfNone(@, "exact"),
                                  !.cityMatched = TRUE]
                   ELSE [s EXCEPT !.score = @ + Pct(85) \div 4,
                                  !.cityMatched = TRUE]
              ELSE s
         ELSE CityFuzzy(s, similarity(normalizedOper, normalizedJunboCity))
    ELSE s

\* the city level with the method raised to code by an equal city code
ScoreCityCodeRaises(s, junbo, operInput, normalizedJunboCity) ==
    IF operInput.cityCode # <<>> /\ operInput.cityCode = junbo.cityCode
    THEN [s EXCEPT !.score = @ + Pct(25), !.method = "code", !.cityMatched = TRUE]
    ELSE IF operInput.cityName # <<>> /\ operInput.cityName = junbo.cityName
    THEN [s EXCEPT !.score = @ + Pct(25), !.method = IfNone(@, "exact"),
                   !.cityMatched = TRUE]
    ELSE IF operInput.cityName # <<>> /\ normalizedJunboCity # <<>>
    THEN CityByName(s, getNormalized(operInput.cityName), normalizedJunboCity)
    ELSE s

\* 2. the city level
ScoreCity(s, junbo, operInput, normalizedJunboCity) ==
    IF operInput.cityCode # <<>> /\ operInput.cityCode = junbo.cityCode
    THEN [s EXCEPT !.score = @ + Pct(25), !.cityMatched = TRUE]
    ELSE IF operInput.cityName # <<>> /\ operInput.cityName = junbo.cityName
    THEN [s EXCEPT !.score = @ + Pct(25), !.method = IfNone(@, "exact"),
                   !.cityMatched = TRUE]
    ELSE IF operInput.cityName # <<>> /\ normalizedJunboCity # <<>>
    THEN CityByName(s, getNormalized(operInput.cityName), normalizedJunboCity)
    ELSE s

\* name.replace(/[Zhen Qu Xian]$/, '')
WithoutSuffix(name) ==
    IF name # <<>> /\ name[Len(name)] \in {"Zhen", "Qu", "Xian"}
    THEN SubSeq(name, 1, Len(name) - 1)
    ELSE name

\* if (similarity >= 0.85) at the district level
DistrictFuzzy(s, sim) ==
    IF sim >= Pct(85)
    THEN [s EXCEPT !.score = @ + sim \div 2, !.districtFuzzyMatch = TRUE]
    ELSE s

DistrictBySuffix(s, normalizedOper, normalizedJunboDistrict, operWithoutSuffix, junboWithoutSuffix) ==
    IF \/ operWithoutSuffix = junboWithoutSuffix
       \/ /\ Len(operWithoutSuffix) > 0
          /\ Len(junboWithoutSuffix) > 0
          /\ \/ Includes(operWithoutSuffix, junboWithoutSuffix)
             \/ Includes(junboWithoutSuffix, operWithoutSuffix)
    THEN [s EXCEPT !.score = @ + Pct(95) \div 2, !.districtFuzzyMatch = TRUE]
    ELSE DistrictFuzzy(s, similarity(normalizedOper, normalizedJunboDistrict))

\* the district by its name with equal normalized names left to the suffix test
DistrictByNameAsPartial(s, normalizedOper, normalizedJunboDistrict) ==
    IF normalizedOper # <<>> /\ normalizedJunboDistrict # <<>>
    THEN DistrictBySuffix(s, normalizedOper, normalizedJunboDistrict,
                          WithoutSuffix(normalizedOper),
                          WithoutSuffix(normalizedJunboDistrict))
    ELSE s

DistrictByName(s, normalizedOper, normalizedJunboDistrict) ==
    IF normalizedOper = normalizedJunboDistrict
    THEN [s EXCEPT !.score = @ + Pct(50), !.method = IfNone(@, "exact"),
                   !.districtExactMatch = TRUE]
    ELSE IF normalizedOper # <<>> /\ normalizedJunboDistrict # <<>>
    THEN DistrictBySuffix(s, normalizedOper, normalizedJunboDistrict,
                          WithoutSuffix(normalizedOper),
                          WithoutSuffix(normalizedJunboDistrict))
    ELSE s

\* 3. the district level
ScoreDistrict(s, junbo, operInput, normalizedJunboDistrict) ==
    IF operInput.districtCode # <<>> /\ operInput.districtCode = junbo.districtCode
    THEN [s EXCEPT !.score = @ + Pct(50), !.districtExactMatch = TRUE]
    ELSE IF operInput.districtName # <<>> /\ operInput.districtName = junbo.districtName
    THEN [s EXCEPT !.score = @ + Pct(50), !.method = IfNone(@, "exact"),
                   !.districtExactMatch = TRUE]
    ELSE IF operInput.districtName # <<>> /\ normalizedJunboDistrict # <<>>
    THEN DistrictByName(s, getNormalized(operInput.districtName), normalizedJunboDistrict)
    ELSE s

\* if (cityMatched) { 3. the district level }
DistrictGate(c, junbo, operInput) ==
    IF c.cityMatched
    THEN ScoreDistrict(c, junbo, operInput, getNormalized(junbo.districtName))
    ELSE c

\* if (provinceMatched) { 2. the city level ... }
CityGate(p, junbo, operInput) ==
    IF p.provinceMatched
    THEN DistrictGate(ScoreCity(p, junbo, operInput, getNormalized(junbo.cityName)),
                      junbo, operInput)
    ELSE p

\* the loop body with the city and district levels scored whatever the level
\* above found
ScoreCandidateUngated(junbo, operInput) ==
    ScoreDistrict(
        ScoreCity(
            ScoreProvince(ScoreStart, junbo, operInput, getNormalized(junbo.provinceName)),
            junbo, operInput, getNormalized(junbo.cityName)),
        junbo, operInput, getNormalized(junbo.districtName))

\* the body of the loop over candidateInputs
ScoreCandidate(junbo, operInput) ==
    CityGate(ScoreProvince(ScoreStart, junbo, operInput, getNormalized(junbo.provinceName)),
             junbo, operInput)

\* the confidence band of a score, the high band starting at 0.95
ConfidenceOfShifted(score) ==
    IF score >= Pct(95) THEN "high"
    ELSE IF score >= Pct(60) THEN "medium"
    ELSE IF score > 0 THEN "low"
    ELSE "none"

\* the confidence band of a score
ConfidenceOf(score) ==
    IF score >= Pct(90) THEN "high"
    ELSE IF score >= Pct(60) THEN "medium"
    ELSE IF score > 0 THEN "low"
    ELSE "none"

\* candidates.push({input, score, method, ...}) whatever the score
CandidateEntryAnyScore(input, s) ==
    << [input |-> input, score |-> s.score, method |-> s.method,
        districtExactMatch |-> s.districtExactMatch,
        districtFuzzyMatch |-> s.districtFuzzyMatch] >>

\* if (score > 0) candidates.push({input, score, method, ...})
CandidateEntry(input, s) ==
    IF s.score > 0
    THEN << [input |-> input, score |-> s.score, method |-> s.method,
             districtExactMatch |-> s.districtExactMatch,
             districtFuzzyMatch |-> s.districtFuzzyMatch] >>
    ELSE <<>>

\* candidates: the scored candidates with score > 0, in candidateInputs order
RECURSIVE ScoredCandidates(_, _, _)
ScoredCandidates(junbo, inputs, candidateInputs) ==
    IF candidateInputs = <<>> THEN <<>>
    ELSE CandidateEntry(Head(candidateInputs),
                        ScoreCandidate(junbo, inputs[Head(candidateInputs)]))
         \o ScoredCandidates(junbo, inputs, Tail(candidateInputs))

\* list.reduce((prev, curr) => curr.score > prev.score ? curr : prev)
RECURSIVE ReduceBest(_, _)
ReduceBest(prev, rest) ==
    IF rest = <<>> THEN prev
    ELSE ReduceBest(IF Head(rest).score > prev.score THEN Head(rest) ELSE prev, Tail(rest))

IsDistrictExact(c) == c.districtExactMatch

\* the result for the best candidate
ResultOfBest(best) ==
    [matched |-> best.input, matchScore |-> best.score,
     matchMethod |-> best.method, confidence |-> ConfidenceOf(best.score)]

\* the selection among the scored candidates
SelectBest(candidates, exactDistrictMatches) ==
    IF exactDistrictMatches # <<>>
    THEN ResultOfBest(ReduceBest(Head(exactDistrictMatches), Tail(exactDistrictMatches)))
    ELSE IF candidates # <<>>
    THEN ResultOfBest(ReduceBest(Head(candidates), Tail(candidates)))
    ELSE [matched |-> 0, matchScore |-> 0, matchMethod |-> "none",
          confidence |-> ConfidenceOf(0)]

\* the selection by score alone, without the district-exact group
SelectFromByScoreAlone(candidates) ==
    SelectBest(candidates, <<>>)

SelectFrom(candidates) ==
    SelectBest(candidates, SelectSeq(candidates, IsDistrictExact))

\* matched is the position of the selected input record, 0 for null
matchOperAddressFromJunboOptimized(junbo, inputs, candidateInputs) ==
    SelectFrom(ScoredCandidates(junbo, inputs, candidateInputs))

----------------------------------------------------------------------------
(* matchOperAddressFromJunbo: the staged matcher over the whole list of    *)
(* input records.  It normalizes with normalizeName inside the loop and    *)
(* tests the raw names of both sides before it does.                       *)

\* the province by its normalized name: normalizedOper, normalizedJunbo
StagedProvinceByName(s, normalizedOper, normalizedJunbo) ==
    IF normalizedOper # <<>> /\ normalizedJunbo # <<>> /\ normalizedOper = normalizedJunbo
    THEN [s EXCEPT !.score = @ + Pct(25), !.method = IfNone(@, "exact"),
                   !.provinceMatched = TRUE]
    ELSE IF normalizedOper # <<>> /\ normalizedJunbo # <<>>
    THEN ProvinceFuzzy(s, similarity(normalizedOper, normalizedJunbo))
    ELSE s

\* 1. the province level
StagedProvince(s, junbo, operInput) ==
    IF operInput.provinceCode # <<>> /\ operInput.provinceCode = junbo.provinceCode
    THEN [s EXCEPT !.score = @ + Pct(25), !.method = "code", !.provinceMatched = TRUE]
    ELSE IF operInput.provinceName # <<>> /\ operInput.provinceName = junbo.provinceName
    THEN [s EXCEPT !.score = @ + Pct(25), !.method = IfNone(@, "exact"),
                   !.provinceMatched = TRUE]
    ELSE IF operInput.provinceName # <<>> /\ junbo.provinceName # <<>>
    THEN StagedProvinceByName(s, normalizeName(operInput.provinceName),
                              normalizeName(junbo.provinceName))
    ELSE s

\* the city by its normalized name
StagedCityByName(s, normalizedOper, normalizedJunbo) ==
    IF normalizedOper # <<>> /\ normalizedJunbo # <<>> /\ normalizedOper = normalizedJunbo
    THEN [s EXCEPT !.score = @ + Pct(25), !.method = IfNone(@, "exact"),
                   !.cityMatched = TRUE]
    ELSE IF normalizedOper # <<>> /\ normalizedJunbo # <<>>
    THEN IF Includes(normalizedOper, normalizedJunbo)
            \/ Includes(normalizedJunbo, normalizedOper)
         THEN IF /\ Min(Len(normalizedOper), Len(normalizedJunbo)) >= 2
                 /\ \/ StartsWith(normalizedOper, normalizedJunbo)
                    \/ StartsWith(normalizedJunbo, normalizedOper)
              THEN [s EXCEPT !.score = @ + Pct(95) \div 4,
                             !.method = IfNone(@, "exact"),
                             !.cityMatched = TRUE]
              ELSE IF Min(Len(normalizedOper), Len(normalizedJunbo)) >= 2
              THEN [s EXCEPT !.score = @ + Pct(85) \div 4, !.cityMatched = TRUE]
              ELSE s
         ELSE CityFuzzy(s, similarity(normalizedOper, normalizedJunbo))
    ELSE s

\* 2. the city level
StagedCity(s, junbo, operInput) ==
    IF operInput.cityCode # <<>> /\ operInput.cityCode = junbo.cityCode
    THEN [s EXCEPT !.score = @ + Pct(25), !.cityMatched = TRUE]
    ELSE IF operInput.cityName # <<>> /\ operInput.cityName = junbo.cityName
    THEN [s EXCEPT !.score = @ + Pct(25), !.method = IfNone(@, "exact"),
                   !.cityMatched = TRUE]
    ELSE IF operInput.cityName # <<>> /\ junbo.cityName # <<>>
    THEN StagedCityByName(s, normalizeName(operInput.cityName),
                          normalizeName(junbo.cityName))
    ELSE s

\* the district by its normalized name
StagedDistrictByName(s, normalizedOper, normalizedJunbo) ==
    IF normalizedOper # <<>> /\ normalizedJunbo # <<>> /\ normalizedOper = normalizedJunbo
    THEN [s EXCEPT !.score = @ + Pct(50), !.method = IfNone(@, "exact"),
                   !.districtExactMatch = TRUE]
    ELSE IF normalizedOper # <<>> /\ normalizedJunbo # <<>>
    THEN DistrictBySuffix(s, normalizedOper, normalizedJunbo,
                          WithoutSuffix(normalizedOper), WithoutSuffix(normalizedJunbo))
    ELSE s

\* 3. the district level
StagedDistrict(s, junbo, operInput) ==
    IF operInput.districtCode # <<>> /\ operInput.districtCode = junbo.districtCode
    THEN [s EXCEPT !.score = @ + Pct(50), !.districtExactMatch = TRUE]
    ELSE IF operInput.districtName # <<>> /\ operInput.districtName = junbo.districtName
    THEN [s EXCEPT !.score = @ + Pct(50), !.method = IfNone(@, "exact"),
                   !.districtExactMatch = TRUE]
    ELSE IF operInput.districtName # <<>> /\ junbo.districtName # <<>>
    THEN StagedDistrictByName(s, normalizeName(operInput.districtName),
                              normalizeName(junbo.districtName))
    ELSE s

\* if (cityMatched) { 3. the district level }
StagedDistrictGate(c, junbo, operInput) ==
    IF c.cityMatched THEN StagedDistrict(c, junbo, operInput) ELSE c

\* if (provinceMatched) { 2. the city level ... }
StagedLower(p, junbo, operInput) ==
    IF p.provinceMatched
    THEN StagedDistrictGate(StagedCity(p, junbo, operInput), junbo, operInput)
    ELSE p

\* the candidates of the loop over operInputs, from position k on
RECURSIVE StagedCandidates(_, _, _)
StagedCandidates(junbo, inputs, k) ==
    IF k > Len(inputs) THEN <<>>
    ELSE CandidateEntry(k, StagedLower(StagedProvince(ScoreStart, junbo, inputs[k]),
                                       junbo, inputs[k]))
         \o StagedCandidates(junbo, inputs, k + 1)

\* matched is the position of the selected input record, 0 for null
matchOperAddressFromJunbo(junbo, inputs) ==
    SelectFrom(StagedCandidates(junbo, inputs, 1))


\* matchResult.matched?.field || ''
MatchedRecord(inputs, matched) ==
    IF matched = 0 THEN OperInput(<<>>, <<>>, <<>>, <<>>, <<>>, <<>>) ELSE inputs[matched]

\* the AddressMatchResult with needsConfirmation set for confidence low alone
BuildResultConfirmLowOnly(junbo, inputs, mr) ==
    LET m == MatchedRecord(inputs, mr.matched)
    IN  [input  |-> m,
         output |-> [junbo_province_name |-> junbo.provinceName,
                     oper_province_name  |-> m.provinceName,
                     oper_province_code  |-> m.provinceCode,
                     junbo_city_name     |-> junbo.cityName,
                     oper_city_name      |-> m.cityName,
                     oper_city_code      |-> m.cityCode,
                     junbo_district_name |-> junbo.districtName,
                     oper_district_name  |-> m.districtName,
                     oper_district_code  |-> m.districtCode,
                     match_score         |-> mr.matchScore,
                     match_method        |-> mr.matchMethod,
                     confidence          |-> mr.confidence],
         needsConfirmation |-> mr.confidence = "low"]

\* the AddressMatchResult built from a match result
BuildResult(junbo, inputs, mr) ==
    LET m == MatchedRecord(inputs, mr.matched)
    IN  [input  |-> m,
         output |-> [junbo_province_name |-> junbo.provinceName,
                     oper_province_name  |-> m.provinceName,
                     oper_province_code  |-> m.provinceCode,
                     junbo_city_name     |-> junbo.cityName,
                     oper_city_name      |-> m.cityName,
                     oper_city_code      |-> m.cityCode,
                     junbo_district_name |-> junbo.districtName,
                     oper_district_name  |-> m.districtName,
                     oper_district_code  |-> m.districtCode,
                     match_score         |-> mr.matchScore,
                     match_method        |-> mr.matchMethod,
                     confidence          |-> mr.confidence],
         needsConfirmation |-> mr.confidence \in {"low", "none"}]

\* matchSingleJunboAddress without the lookup by the full code tuple
matchSingleJunboAddressNoShortCircuit(junbo, inputs, idx) ==
    BuildResult(junbo, inputs,
        matchOperAddressFromJunboOptimized(junbo, inputs, getCandidateInputs(junbo, idx)))

matchSingleJunboAddress(junbo, inputs, idx) ==
    LET codeKey == CodeKey(junbo.provinceCode, junbo.cityCode, junbo.districtCode)
    IN  IF codeKey \in DOMAIN idx.operInputsByCode
        THEN BuildResult(junbo, inputs,
                 [matched |-> idx.operInputsByCode[codeKey], matchScore |-> Unit,
                  matchMethod |-> "code", confidence |-> "high"])
        ELSE BuildResult(junbo, inputs,
                 matchOperAddressFromJunboOptimized(junbo, inputs,
                                                    getCandidateInputs(junbo, idx)))

----------------------------------------------------------------------------
(* The final sort of batchMatch. *)

\* the characters of the model in collation order
CharOrder ==
    <<" ", "-", "0", "1", "2", "3", "4", "5", "6", "7", "8", "9",
      "a", "b", "c", "d", "e", "f", "g", "h", "i", "x", "y", "z",
      "Di", "Qu", "Sheng", "Shi", "Xian", "Zhen">>

CharRank(c) == CHOOSE k \in 1..Len(CharOrder) : CharOrder[k] = c

\* a.localeCompare(b): negative, zero or positive; the collation compares
\* character by character, a proper prefix first
RECURSIVE localeCompare(_, _)
localeCompare(a, b) ==
    IF a = <<>> /\ b = <<>> THEN 0
    ELSE IF a = <<>> THEN -1
    ELSE IF b = <<>> THEN 1
    ELSE IF CharRank(Head(a)) < CharRank(Head(b)) THEN -1
    ELSE IF CharRank(Head(a)) > CharRank(Head(b)) THEN 1
    ELSE localeCompare(Tail(a), Tail(b))

\* the comparator handed to results.sort
CompareResults(a, b) ==
    LET provinceCompare == localeCompare(a.output.junbo_province_name,
                                         b.output.junbo_province_name)
        cityCompare == localeCompare(a.output.junbo_city_name, b.output.junbo_city_name)
    IN  IF provinceCompare # 0 THEN provinceCompare
        ELSE IF cityCompare # 0 THEN cityCompare
        ELSE localeCompare(a.output.junbo_district_name, b.output.junbo_district_name)

\* where a stable sort puts list[k]: behind the elements that compare less
\* and behind those before it that compare equal
SortedPosition(list, k) ==
    Cardinality({ j \in 1..Len(list) :
                    \/ CompareResults(list[j], list[k]) < 0
                    \/ j <= k /\ CompareResults(list[j], list[k]) = 0 })

\* the list with each element at its position
Arrange(list, positions) ==
    [p \in 1..Len(list) |-> list[CHOOSE k \in 1..Len(list) : positions[k] = p]]

\* Array.prototype.sort: a stable sort by the comparator
SortResults(list) ==
    Arrange(list, [k \in 1..Len(list) |-> SortedPosition(list, k)] \o <<>>)

----------------------------------------------------------------------------
(* batchMatch *)

\* the number of addresses matched per slice
batchSize == 100

\* batch.map(junboAddress => this.matchSingleJunboAddress(...))
MatchSlice(batch, inputs, idx) ==
    [k \in 1..Len(batch) |-> matchSingleJunboAddress(batch[k], inputs, idx)]

\* the loop for (i = 0; i < all.length; i += batchSize), i counted from 0
RECURSIVE MatchSlices(_, _, _, _)
MatchSlices(all, i, inputs, idx) ==
    IF i >= Len(all) THEN <<>>
    ELSE MatchSlice(SubSeq(all, i + 1, Min(i + batchSize, Len(all))), inputs, idx)
         \o MatchSlices(all, i + batchSize, inputs, idx)

\* batchMatch returning the results in the order they were computed
batchMatchUnsorted(data, cache, inputs) ==
    MatchSlices(generateAllJunboAddresses(data, cache), 0, inputs,
                BuildInputIndexes(inputs))

batchMatch(data, cache, inputs) ==
    SortResults(MatchSlices(generateAllJunboAddresses(data, cache), 0, inputs,
                                  BuildInputIndexes(inputs)))

----------------------------------------------------------------------------
(* batchMatchAsync: the same indexes, chunks of 200, each chunk matched by  *)
(* callbacks queued with Promise.resolve().then and awaited with            *)
(* Promise.all, which resolves to the results in the order of the chunk.    *)

asyncBatchSize == 200

\* the chunk one address short: slice(i, i + batchSize - 1)
AsyncChunkShort(all, i, inputs) ==
    MatchSlice(SubSeq(all, i + 1, Min(i + asyncBatchSize - 1, Len(all))), inputs,
               BuildInputIndexes(inputs))

\* batch = allJunboAddresses.slice(i, i + batchSize); await Promise.all(...)
AsyncChunk(all, i, inputs) ==
    MatchSlice(SubSeq(all, i + 1, Min(i + asyncBatchSize, Len(all))), inputs,
               BuildInputIndexes(inputs))

\* the state of the call behind the await of the chunk at i: the loop goes
\* on to the next await, or the results are sorted and returned
AsyncAfterChunk(a, all, acc) ==
    IF a.i + asyncBatchSize >= Len(all)
    THEN [done |-> TRUE, running |-> FALSE, i |-> 0, acc |-> <<>>,
          list |-> SortResults(acc)]
    ELSE [a EXCEPT !.i = @ + asyncBatchSize, !.acc = acc]

----------------------------------------------------------------------------
(* matchProvince, matchCity, matchDistrict and match: the single-record    *)
(* matcher.  A level match is [found, code, name]; found = FALSE is null.  *)

NoMatch == [found |-> FALSE, code |-> <<>>, name |-> <<>>]

Found(code, name) == [found |-> TRUE, code |-> code, name |-> name]

\* if (score >= 0.8 && (!bestMatch || score > bestMatch.score)) of step 3
BetterFuzzy(e, inScope, score, best) ==
    IF inScope /\ score >= Pct(80) /\ (~best.found \/ score > best.score)
    THEN [found |-> TRUE, code |-> e.code, name |-> e.name, score |-> score]
    ELSE best

\* the loop of step 3: the first entry in scope with the highest score >= 0.8
RECURSIVE BestFuzzy(_, _, _, _, _)
BestFuzzy(entries, provinceCode, cityCode, normalizedInput, best) ==
    IF entries = <<>> THEN best
    ELSE BestFuzzy(Tail(entries), provinceCode, cityCode, normalizedInput,
                   BetterFuzzy(Head(entries),
                               /\ (cityCode = <<>> \/ Head(entries).cityCode = cityCode)
                               /\ (provinceCode = <<>>
                                   \/ Head(entries).provinceCode = provinceCode),
                               similarity(normalizedInput, normalizeName(Head(entries).name)),
                               best))

\* if (bestMatch) return {code, name}; return null
FuzzyResult(best) == IF best.found THEN Found(best.code, best.name) ELSE NoMatch

NoBest == [found |-> FALSE, code |-> <<>>, name |-> <<>>, score |-> 0]

\* step 2 then step 3 of matchProvince
ProvinceByIndex(refIndex, provinceName, exactMatch) ==
    IF exactMatch # NoEntry
    THEN Found(exactMatch.code, exactMatch.name)
    ELSE FuzzyResult(BestFuzzy(refIndex.provinces, <<>>, <<>>,
                               normalizeName(provinceName), NoBest))

ProvinceByCode(refIndex, provinceName, provinceCode, byCode) ==
    IF provinceCode # <<>> /\ byCode # <<>>
    THEN Found(provinceCode, byCode)
    ELSE ProvinceByIndex(refIndex, provinceName, MapGet(refIndex.provinces, provinceName))

matchProvince(data, refIndex, provinceName, provinceCode) ==
    ProvinceByCode(refIndex, provinceName, provinceCode,
                   ValueIn(EntriesOf(data, RootKey), provinceCode))

\* the loop of step 2 of matchCity: the entry under the name, in the province
CityExact(refIndex, cityName, provinceCode, entry) ==
    IF provinceCode # <<>> /\ entry # NoEntry /\ entry.provinceCode = provinceCode
    THEN Found(entry.code, entry.name)
    ELSE FuzzyResult(BestFuzzy(refIndex.cities, provinceCode, <<>>,
                               normalizeName(cityName), NoBest))

CityByCode(refIndex, cityName, cityCode, provinceCode, byCode) ==
    IF cityCode # <<>> /\ provinceCode # <<>> /\ byCode # <<>>
    THEN Found(cityCode, byCode)
    ELSE CityExact(refIndex, cityName, provinceCode, MapGet(refIndex.cities, cityName))

matchCity(data, refIndex, cityName, cityCode, provinceCode) ==
    CityByCode(refIndex, cityName, cityCode, provinceCode,
               ValueIn(EntriesOf(data, provinceCode), cityCode))

\* the loop of step 2 of matchDistrict: the entry under the name, in the city
DistrictExact(refIndex, districtName, provinceCode, cityCode, entry) ==
    IF cityCode # <<>> /\ entry # NoEntry /\ entry.cityCode = cityCode
    THEN Found(entry.code, entry.name)
    ELSE FuzzyResult(BestFuzzy(refIndex.districts, provinceCode, cityCode,
                               normalizeName(districtName), NoBest))

DistrictByCode(refIndex, districtName, districtCode, provinceCode, cityCode, byCode) ==
    IF districtCode # <<>> /\ cityCode # <<>> /\ byCode # <<>>
    THEN Found(districtCode, byCode)
    ELSE DistrictExact(refIndex, districtName, provinceCode, cityCode,
                       MapGet(refIndex.districts, districtName))

matchDistrict(data, refIndex, districtName, districtCode, provinceCode, cityCode) ==
    DistrictByCode(refIndex, districtName, districtCode, provinceCode, cityCode,
                   ValueIn(EntriesOf(data, cityCode), districtCode))

\* the confidence chain at the end of match
matchConfidence(matchScore) ==
    IF matchScore >= Pct(90) THEN "high"
    ELSE IF matchScore >= Pct(60) THEN "medium"
    ELSE IF matchScore > 0 THEN "low"
    ELSE "none"

\* the method after the province matched
MethodAfterProvince(method, inputCode, inputName, found) ==
    IF inputCode # <<>> /\ found.code = inputCode THEN "code"
    ELSE IF inputName = found.name THEN IfNone(method, "exact")
    ELSE IfNone(method, "fuzzy")

\* the method after the city or the district matched
MethodAfterLower(method, inputCode, inputName, found) ==
    IF inputCode # <<>> /\ found.code = inputCode THEN method
    ELSE IF inputName = found.name THEN IfNone(method, "exact")
    ELSE method

\* the state of match: junbo, matchScore, matchMethod
MatchStart ==
    [junbo |-> [provinceCode |-> <<>>, provinceName |-> <<>>, cityCode |-> <<>>,
                cityName |-> <<>>, districtCode |-> <<>>, districtName |-> <<>>],
     matchScore |-> 0, matchMethod |-> "none"]

\* 1. if (provinceMatch) { ... }
AfterProvince(m, input, provinceMatch) ==
    IF provinceMatch.found
    THEN [m EXCEPT !.junbo.provinceCode = provinceMatch.code,
                   !.junbo.provinceName = provinceMatch.name,
                   !.matchScore = @ + Pct(33),
                   !.matchMethod = MethodAfterProvince(@, input.provinceCode,
                                                       input.provinceName, provinceMatch)]
    ELSE m

\* 2. if (cityMatch) { ... }
AfterCity(m, input, cityMatch) ==
    IF cityMatch.found
    THEN [m EXCEPT !.junbo.cityCode = cityMatch.code,
                   !.junbo.cityName = cityMatch.name,
                   !.matchScore = @ + Pct(33),
                   !.matchMethod = MethodAfterLower(@, input.cityCode,
                                                    input.cityName, cityMatch)]
    ELSE m

\* 3. if (districtMatch) { ... }
AfterDistrict(m, input, districtMatch) ==
    IF districtMatch.found
    THEN [m EXCEPT !.junbo.districtCode = districtMatch.code,
                   !.junbo.districtName = districtMatch.name,
                   !.matchScore = @ + Pct(34),
                   !.matchMethod = MethodAfterLower(@, input.districtCode,
                                                    input.districtName, districtMatch)]
    ELSE m

\* 3. if (junbo.cityCode) { matchDistrict ... }
DistrictStep(data, refIndex, input, m) ==
    IF m.junbo.cityCode # <<>>
    THEN AfterDistrict(m, input,
             matchDistrict(data, refIndex, input.districtName, input.districtCode,
                           m.junbo.provinceCode, m.junbo.cityCode))
    ELSE m

\* 2. if (junbo.provinceCode) { matchCity ... }
CityStep(data, refIndex, input, m) ==
    IF m.junbo.provinceCode # <<>>
    THEN AfterCity(m, input,
             matchCity(data, refIndex, input.cityName, input.cityCode,
                       m.junbo.provinceCode))
    ELSE m

\* the MatchResult returned
MatchResultOf(m) ==
    [junbo |-> m.junbo, matchScore |-> m.matchScore, matchMethod |-> m.matchMethod,
     confidence |-> matchConfidence(m.matchScore)]

\* steps 1 to 3 of match
MatchSteps(data, refIndex, input) ==
    DistrictStep(data, refIndex, input,
        CityStep(data, refIndex, input,
            AfterProvince(MatchStart, input,
                matchProvince(data, refIndex, input.provinceName,
                              input.provinceCode))))

match(data, refIndex, input) ==
    MatchResultOf(MatchSteps(data, refIndex, input))

----------------------------------------------------------------------------
(* match of the matcher version kept in src/unnamed/part_006: steps 1 to 3 *)
(* as above, then a fallback that parses the three names, joined, with the *)
(* zh-address-parse library.  The library is outside the repository: what  *)
(* it returns is any of null and the (province, city, area) triples over   *)
(* the catalog's names, a component left out being <<>>.  On the records   *)
(* this version is run on (names that are a catalog name or unrelated to   *)
(* all of them) its similarity and normalizeName return what those of      *)
(* part_005 return.                                                        *)

\* parseAddressComponents returned null
NoParse == [parsed |-> FALSE, province |-> <<>>, city |-> <<>>, area |-> <<>>]

\* the names in a Map of the index, and a component left out
NamesOrNone(map) == { map[n].name : n \in 1..Len(map) } \cup {<<>>}

\* what parseAddressComponents can return for the names of an input record
ParsedAddresses(refIndex, input) ==
    IF input.provinceName \o input.cityName \o input.districtName = <<>>
    THEN {NoParse}
    ELSE {NoParse} \cup
         [parsed : {TRUE}, province : NamesOrNone(refIndex.provinces),
          city : NamesOrNone(refIndex.cities), area : NamesOrNone(refIndex.districts)]

\* if (provinceMatch && !junbo.provinceCode) { ... matchMethod = 'parse' }
FallbackProvince(m, provinceMatch) ==
    IF provinceMatch.found /\ m.junbo.provinceCode = <<>>
    THEN [m EXCEPT !.junbo.provinceCode = provinceMatch.code,
                   !.junbo.provinceName = provinceMatch.name,
                   !.matchScore = @ + Pct(33), !.matchMethod = "parse"]
    ELSE m

\* if (cityMatch && !junbo.cityCode) { ... matchMethod = 'parse' }
FallbackCity(m, cityMatch) ==
    IF cityMatch.found /\ m.junbo.cityCode = <<>>
    THEN [m EXCEPT !.junbo.cityCode = cityMatch.code,
                   !.junbo.cityName = cityMatch.name,
                   !.matchScore = @ + Pct(33), !.matchMethod = "parse"]
    ELSE m

\* if (districtMatch && !junbo.districtCode) { ... matchMethod = 'parse' }
FallbackDistrict(m, districtMatch) ==
    IF districtMatch.found /\ m.junbo.districtCode = <<>>
    THEN [m EXCEPT !.junbo.districtCode = districtMatch.code,
                   !.junbo.districtName = districtMatch.name,
                   !.matchScore = @ + Pct(34), !.matchMethod = "parse"]
    ELSE m

\* if (parsed.area && junbo.cityCode) { matchDistrict(parsed.area, undefined, ...) }
FallbackDistrictStep(data, refIndex, m, parsed) ==
    IF parsed.area # <<>> /\ m.junbo.cityCode # <<>>
    THEN FallbackDistrict(m, matchDistrict(data, refIndex, parsed.area, <<>>,
                                           m.junbo.provinceCode, m.junbo.cityCode))
    ELSE m

\* if (parsed.city && junbo.provinceCode) { matchCity(parsed.city, undefined, ...) }
FallbackCityStep(data, refIndex, m, parsed) ==
    IF parsed.city # <<>> /\ m.junbo.provinceCode # <<>>
    THEN FallbackCity(m, matchCity(data, refIndex, parsed.city, <<>>,
                                   m.junbo.provinceCode))
    ELSE m

\* if (parsed.province) { matchProvince(parsed.province) }
FallbackProvinceStep(data, refIndex, m, parsed) ==
    IF parsed.province # <<>>
    THEN FallbackProvince(m, matchProvince(data, refIndex, parsed.province, <<>>))
    ELSE m

\* 4. if (matchScore < 0.5) { parsed = parseAddressComponents(...); if (parsed) ... }
ParseFallback(data, refIndex, m, parsed) ==
    IF m.matchScore < Pct(50) /\ parsed.parsed
    THEN FallbackDistrictStep(data, refIndex,
             FallbackCityStep(data, refIndex,
                 FallbackProvinceStep(data, refIndex, m, parsed), parsed), parsed)
    ELSE m

\* match with the fallback, the library returning parsed
matchWithParse(data, refIndex, input, parsed) ==
    MatchResultOf(ParseFallback(data, refIndex, MatchSteps(data, refIndex, input), parsed))

----------------------------------------------------------------------------
(* The input records the requests are drawn from.  They are built around   *)
(* the leaf bc-Sheng / defg-Shi / hi-Qu (codes 11, 21, 31): each level     *)
(* carries the leaf's name and code, the leaf's name alone, or nothing     *)
(* that matches; further records reach the normalized, containment and     *)
(* edit-distance branches and the other leaves.  As readExcel returns      *)
(* them, no field has outer blanks and no record is empty.                 *)

ProvinceParts ==
    { << <<"b", "c", "Sheng">>, Code("1", "1") >>,
      << <<"b", "c", "Sheng">>, <<>> >>,
      << <<"x", "Sheng">>, Code("9", "9") >> }

CityParts ==
    { << <<"d", "e", "f", "g", "Shi">>, Code("2", "1") >>,
      << <<"d", "e", "f", "g", "Shi">>, <<>> >>,
      << <<"y", "Shi">>, <<>> >> }

DistrictParts ==
    { << <<"h", "i", "Qu">>, Code("3", "1") >>,
      << <<"h", "i", "Qu">>, <<>> >>,
      << <<>>, <<>> >> }

ProductRecords ==
    { OperInput(p[1], p[2], c[1], c[2], d[1], d[2]) :
        p \in ProvinceParts, c \in CityParts, d \in DistrictParts }

ExtraRecords ==
    { \* fuzzy province, prefix of the city, part of the district
      OperInput(<<"b", "c", "d">>, <<>>, <<"d", "e", "f">>, <<>>, <<"h", "Qu">>, <<>>),
      \* names without their suffixes; the city an inner part
      OperInput(<<"b", "c">>, <<>>, <<"e", "f", "g">>, <<>>, <<"h", "i">>, <<>>),
      \* the city one edit away
      OperInput(<<"b", "c", "Sheng">>, <<>>, <<"d", "e", "f", "x">>, <<>>,
                <<"h", "i", "Qu">>, <<>>),
      \* the leaf a-Sheng / ab-Shi / cdefghi-Qu, its district one edit away
      OperInput(<<"a", "Sheng">>, Code("1", "2"), <<"a", "b", "Shi">>, Code("2", "3"),
                <<"c", "d", "e", "f", "g", "h", "x">>, <<>>),
      \* the leaf bc-Sheng / ab-Shi / hi-Qu by its codes alone
      OperInput(<<>>, Code("1", "1"), <<>>, Code("2", "2"), <<>>, Code("3", "3")),
      \* a province name with two stacked suffixes
      OperInput(<<"b", "c", "Sheng", "Shi">>, <<>>, <<"d", "e", "f", "g", "Shi">>, <<>>,
                <<"h", "i", "Qu">>, <<>>),
      \* fuzzy province, the city one edit away, the district by its code alone
      OperInput(<<"b", "c", "d">>, <<>>, <<"d", "e", "f", "x">>, <<>>,
                <<>>, Code("3", "1")),
      \* the exact province and city, the district a part of the name
      OperInput(<<"b", "c", "Sheng">>, <<>>, <<"d", "e", "f", "g", "Shi">>, <<>>,
                <<"h", "Qu">>, <<>>) }

Records == ProductRecords \cup ExtraRecords

\* a record that shares the province code 11 and nothing else
FillerRecord == OperInput(<<>>, Code("1", "1"), <<>>, <<>>, <<>>, <<>>)

\* all sequences over S of length at most n
RECURSIVE SeqsUpTo(_, _)
SeqsUpTo(S, n) ==
    IF n = 0 THEN {<<>>}
    ELSE LET shorter == SeqsUpTo(S, n - 1)
         IN  shorter \cup {Append(s, x) : s \in shorter, x \in S}

Repeat(x, n) == [i \in 1..n |-> x]

\* the requests: up to MaxInputs records, or a run of filler records one
\* short of or equal to the candidate threshold followed by up to MaxFilled
\* records
Requests ==
    SeqsUpTo(Records, MaxInputs)
    \cup { Repeat(FillerRecord, n) \o tail :
             n \in {CandidateThreshold - 1, CandidateThreshold},
             tail \in SeqsUpTo(Records, MaxFilled) }

----------------------------------------------------------------------------
(* lib/excel.ts (src/unnamed/part_004): writeExcel and readExcel.  A       *)
(* worksheet is its rows as sheet_to_json gives them, a row mapping the    *)
(* column headers to the cells.  The headers are written in pinyin:        *)
(* "ShengfenMingcheng" is the header of the province name,                 *)
(* "ShengfenBianma" of the province code, "Dishi" and "Chengshi" are the   *)
(* two words for the city, "Quxian" is the district; "_JuFang" and        *)
(* "_junbo" stand for the suffixes "(JuFang)" and "(junbo)" of the written *)
(* columns.                                                                *)

\* translateMatchMethod
translateMatchMethod(method) ==
    CASE method = "code" -> <<"BianmaPipei">>
      [] method = "exact" -> <<"JingquePipei">>
      [] method = "fuzzy" -> <<"MohuPipei">>
      [] method = "none" -> <<"WeiPipei">>
      [] OTHER -> <<method>>

\* translateConfidence
translateConfidence(confidence) ==
    CASE confidence = "high" -> <<"Gao">>
      [] confidence = "medium" -> <<"Zhong">>
      [] confidence = "low" -> <<"Di">>
      [] confidence = "none" -> <<"Wu">>
      [] OTHER -> <<confidence>>

\* the row writeExcel makes of an output record; match_score.toFixed(2) is
\* the score in hundredths, rounded
WrittenRow(item) ==
    [ShengfenMingcheng_junbo  |-> item.junbo_province_name,
     ShengfenMingcheng_JuFang |-> item.oper_province_name,
     ShengfenBianma_JuFang    |-> item.oper_province_code,
     ChengshiMingcheng_junbo  |-> item.junbo_city_name,
     ChengshiMingcheng_JuFang |-> item.oper_city_name,
     ChengshiBianma_JuFang    |-> item.oper_city_code,
     QuxianMingcheng_junbo    |-> item.junbo_district_name,
     QuxianMingcheng_JuFang   |-> item.oper_district_name,
     QuxianBianma_JuFang      |-> item.oper_district_code,
     PipeiFenshu              |-> (item.match_score * 100 + Unit \div 2) \div Unit,
     PipeiFangshi             |-> translateMatchMethod(item.match_method),
     PipeiXinxin              |-> translateConfidence(item.confidence)]

\* the first worksheet of the workbook writeExcel returns
writeExcel(data) ==
    [kind |-> "written", rows |-> [k \in 1..Len(data) |-> WrittenRow(data[k])]]

\* a workbook a user uploads for the records, under the Chinese headers or
\* under the English ones
UploadedRow(r, english) ==
    IF english
    THEN [province_name |-> r.provinceName, province_code |-> r.provinceCode,
          city_name |-> r.cityName, city_code |-> r.cityCode,
          district_name |-> r.districtName, district_code |-> r.districtCode]
    ELSE [ShengfenMingcheng |-> r.provinceName, ShengfenBianma |-> r.provinceCode,
          DishiMingcheng |-> r.cityName, DishiBianma |-> r.cityCode,
          QuxianMingcheng |-> r.districtName, QuxianBianma |-> r.districtCode]

\* String(row[zh] || row[en] || '').trim()
Cell(row, zh, en) ==
    IF zh \in DOMAIN row /\ row[zh] # <<>> THEN Trim(row[zh])
    ELSE IF en \in DOMAIN row /\ row[en] # <<>> THEN Trim(row[en])
    ELSE <<>>

\* jsonData.map((row) => ({ ... }))
ReadRow(row) ==
    OperInput(Cell(row, "ShengfenMingcheng", "province_name"),
              Cell(row, "ShengfenBianma", "province_code"),
              Cell(row, "DishiMingcheng", "city_name"),
              Cell(row, "DishiBianma", "city_code"),
              Cell(row, "QuxianMingcheng", "district_name"),
              Cell(row, "QuxianBianma", "district_code"))

\* item.field || ... : some field of the record is not empty
HasContent(item) ==
    \/ item.provinceName # <<>> \/ item.provinceCode # <<>>
    \/ item.cityName # <<>> \/ item.cityCode # <<>>
    \/ item.districtName # <<>> \/ item.districtCode # <<>>

\* readExcel of a workbook whose first worksheet is ws
readExcel(ws) ==
    SelectSeq([k \in 1..Len(ws.rows) |-> ReadRow(ws.rows[k])], HasContent)

\* no workbook yet, readExcel not called yet
ExcelIdle ==
    /\ sheet = [kind |-> "none", rows |-> <<>>]
    /\ readBack = [done |-> FALSE]

\* batchMatchAsync not called yet: done says a call has resolved (to list),
\* running that a call stands at its await, i and acc being its locals i and
\* results
AsyncIdle ==
    asyncResults = [done |-> FALSE, running |-> FALSE, i |-> 0, acc |-> <<>>, list |-> <<>>]

\* the module state of export.ts as loaded: the three caches null, no request
ExportIdle ==
    /\ matcherLoadPromise = 0
    /\ cachedAddressData = FALSE
    /\ promises = <<>>
    /\ awaited = [c \in 1..MaxCallers |-> 0]

----------------------------------------------------------------------------
(* The upload handlers (node-functions/api/upload.ts and                   *)
(* app/api/upload/route.ts): requests that call getMatcher.  JavaScript    *)
(* runs one request at a time up to its next await, so a step of a request *)
(* is the code between two awaits.  Matcher instances are numbered in the  *)
(* order of their construction.                                            *)

NotRun == [done |-> FALSE]

\* a matcher that serves no request
MatcherIdle ==
    /\ addressData = CatalogA
    /\ index = buildIndex(CatalogA)
    /\ cachedJunboAddresses = [set |-> FALSE, list |-> <<>>]
    /\ operInputs = <<>>
    /\ results = NotRun
    /\ matchResult = NotRun

Callers == 1..MaxCallers

\* no request has arrived
HandlerIdle ==
    /\ cachedMatcher = 0
    /\ callerPc = [c \in Callers |-> "start"]
    /\ loadCalls = 0
    /\ constructed = 0
    /\ returned = [c \in Callers |-> 0]

\* getMatcher up to its await: if (!cachedMatcher) { await loadAddressData() ...
\* and otherwise return cachedMatcher
GetMatcherEnter(c) ==
    /\ callerPc[c] = "start"
    /\ IF cachedMatcher = 0
       THEN /\ callerPc' = [callerPc EXCEPT ![c] = "awaitLoad"]
            /\ loadCalls' = loadCalls + 1
            /\ UNCHANGED returned
       ELSE /\ callerPc' = [callerPc EXCEPT ![c] = "returned"]
            /\ returned' = [returned EXCEPT ![c] = cachedMatcher]
            /\ UNCHANGED loadCalls
    /\ UNCHANGED <<cachedMatcher, constructed, matcherVars, strVars, excelVars, asyncVars, exportVars>>

\* getMatcher behind its await: cachedMatcher = new AddressMatcher(addressData);
\* return cachedMatcher
GetMatcherResume(c) ==
    /\ callerPc[c] = "awaitLoad"
    /\ constructed' = constructed + 1
    /\ cachedMatcher' = constructed + 1
    /\ returned' = [returned EXCEPT ![c] = constructed + 1]
    /\ callerPc' = [callerPc EXCEPT ![c] = "returned"]
    /\ UNCHANGED <<loadCalls, matcherVars, strVars, excelVars, asyncVars, exportVars>>

InitUpload ==
    /\ HandlerIdle
    /\ ExcelIdle
    /\ AsyncIdle
    /\ ExportIdle
    /\ MatcherIdle
    /\ str1 = <<>>
    /\ str2 = <<>>
    /\ strOut = NoCall

NextUpload ==
    \/ \E c \in Callers : GetMatcherEnter(c)
    \/ \E c \in Callers : GetMatcherResume(c)

SpecUpload == InitUpload /\ [][NextUpload]_vars

----------------------------------------------------------------------------
(* The optimized upload function (node-functions/api/export.ts, second     *)
(* file): getMatcher with matcherLoadPromise.  Promises are numbered in    *)
(* the order of their creation; promises[p] is the state of the promise    *)
(* of the p-th build.  loadAddressData either resolves to the catalogue or *)
(* rejects (the dynamic import fails).                                     *)

Pending == [status |-> "pending", value |-> 0]

\* getMatcher that starts a build whether or not one is in flight
GetMatcherUnshared(c) ==
    /\ callerPc[c] = "start"
    /\ IF cachedMatcher # 0
       THEN /\ callerPc' = [callerPc EXCEPT ![c] = "returned"]
            /\ returned' = [returned EXCEPT ![c] = cachedMatcher]
            /\ UNCHANGED <<cachedMatcher, loadCalls, constructed, exportVars>>
       ELSE /\ promises' = Append(promises, Pending)
            /\ loadCalls' = loadCalls + 1
            /\ matcherLoadPromise' = Len(promises) + 1
            /\ awaited' = [awaited EXCEPT ![c] = Len(promises) + 1]
            /\ callerPc' = [callerPc EXCEPT ![c] = "awaitMatcher"]
            /\ UNCHANGED <<cachedMatcher, constructed, returned, cachedAddressData>>
    /\ UNCHANGED <<matcherVars, strVars, excelVars, asyncVars>>

\* await getMatcher() up to the point where the request waits: the promise of
\* the build in flight, else the cached matcher, else a new build that runs up
\* to await loadAddressData(), or, the data cached, to its end
GetMatcherCall(c) ==
    /\ callerPc[c] = "start"
    /\ IF matcherLoadPromise # 0
       THEN /\ awaited' = [awaited EXCEPT ![c] = matcherLoadPromise]
            /\ callerPc' = [callerPc EXCEPT ![c] = "awaitMatcher"]
            /\ UNCHANGED <<cachedMatcher, loadCalls, constructed, returned,
                           matcherLoadPromise, cachedAddressData, promises>>
       ELSE IF cachedMatcher # 0
       THEN /\ callerPc' = [callerPc EXCEPT ![c] = "returned"]
            /\ returned' = [returned EXCEPT ![c] = cachedMatcher]
            /\ UNCHANGED <<cachedMatcher, loadCalls, constructed, exportVars>>
       ELSE IF ~cachedAddressData
       THEN /\ promises' = Append(promises, Pending)
            /\ loadCalls' = loadCalls + 1
            /\ matcherLoadPromise' = Len(promises) + 1
            /\ awaited' = [awaited EXCEPT ![c] = Len(promises) + 1]
            /\ callerPc' = [callerPc EXCEPT ![c] = "awaitMatcher"]
            /\ UNCHANGED <<cachedMatcher, constructed, returned, cachedAddressData>>
       ELSE \* the build ends, finally included, before the assignment of its
            \* promise to matcherLoadPromise
            /\ constructed' = constructed + 1
            /\ cachedMatcher' = constructed + 1
            /\ promises' = Append(promises, [status |-> "fulfilled",
                                             value |-> constructed + 1])
            /\ matcherLoadPromise' = Len(promises) + 1
            /\ awaited' = [awaited EXCEPT ![c] = Len(promises) + 1]
            /\ callerPc' = [callerPc EXCEPT ![c] = "awaitMatcher"]
            /\ UNCHANGED <<loadCalls, returned, cachedAddressData>>
    /\ UNCHANGED <<matcherVars, strVars, excelVars, asyncVars>>

\* the build whose finally block leaves matcherLoadPromise as it is when the
\* load has failed
LoadSettlesKeepsPromise(p, ok) ==
    /\ p \in 1..Len(promises)
    /\ promises[p].status = "pending"
    /\ IF ok
       THEN /\ cachedAddressData' = TRUE
            /\ constructed' = constructed + 1
            /\ cachedMatcher' = constructed + 1
            /\ promises' = [promises EXCEPT ![p] = [status |-> "fulfilled",
                                                    value |-> constructed + 1]]
            /\ matcherLoadPromise' = 0
       ELSE /\ promises' = [promises EXCEPT ![p] = [status |-> "rejected", value |-> 0]]
            /\ UNCHANGED <<matcherLoadPromise, cachedAddressData, constructed,
                           cachedMatcher>>
    /\ UNCHANGED <<callerPc, loadCalls, returned, awaited,
                   matcherVars, strVars, excelVars, asyncVars>>

\* the build behind await loadAddressData(): on data, cachedAddressData and
\* cachedMatcher are set and the promise of the build fulfils; on a rejection
\* the promise rejects; finally sets matcherLoadPromise to null on both
LoadSettles(p, ok) ==
    /\ p \in 1..Len(promises)
    /\ promises[p].status = "pending"
    /\ IF ok
       THEN /\ cachedAddressData' = TRUE
            /\ constructed' = constructed + 1
            /\ cachedMatcher' = constructed + 1
            /\ promises' = [promises EXCEPT ![p] = [status |-> "fulfilled",
                                                    value |-> constructed + 1]]
       ELSE /\ promises' = [promises EXCEPT ![p] = [status |-> "rejected", value |-> 0]]
            /\ UNCHANGED <<cachedAddressData, constructed, cachedMatcher>>
    /\ matcherLoadPromise' = 0
    /\ UNCHANGED <<callerPc, loadCalls, returned, awaited,
                   matcherVars, strVars, excelVars, asyncVars>>

\* const matcher = await getMatcher() behind the await: the value of the
\* promise, or its rejection thrown into the handler
GetMatcherSettled(c) ==
    /\ callerPc[c] = "awaitMatcher"
    /\ promises[awaited[c]].status # "pending"
    /\ IF promises[awaited[c]].status = "fulfilled"
       THEN /\ returned' = [returned EXCEPT ![c] = promises[awaited[c]].value]
            /\ callerPc' = [callerPc EXCEPT ![c] = "returned"]
       ELSE /\ callerPc' = [callerPc EXCEPT ![c] = "failed"]
            /\ UNCHANGED returned
    /\ UNCHANGED <<cachedMatcher, loadCalls, constructed, exportVars,
                   matcherVars, strVars, excelVars, asyncVars>>

InitExport ==
    /\ HandlerIdle
    /\ ExcelIdle
    /\ AsyncIdle
    /\ ExportIdle
    /\ MatcherIdle
    /\ str1 = <<>>
    /\ str2 = <<>>
    /\ strOut = NoCall

NextExport ==
    \/ \E c \in Callers : GetMatcherCall(c)
    \/ \E p \in 1..MaxCallers, ok \in BOOLEAN : LoadSettles(p, ok)
    \/ \E c \in Callers : GetMatcherSettled(c)

SpecExport == InitExport /\ [][NextExport]_vars

----------------------------------------------------------------------------
(* The matcher serving one request. *)

\* the state after new AddressMatcher(addressData), the request read
Init ==
    /\ addressData \in Catalogs
    /\ index = buildIndex(addressData)
    /\ cachedJunboAddresses = [set |-> FALSE, list |-> <<>>]
    /\ operInputs \in Requests
    /\ results = NotRun
    /\ matchResult = NotRun
    /\ str1 = <<>>
    /\ str2 = <<>>
    /\ strOut = NoCall
    /\ HandlerIdle
    /\ ExcelIdle
    /\ AsyncIdle
    /\ ExportIdle

\* batchMatch with the enumerated list returned and not kept
BatchMatchCacheNotKept ==
    /\ results' = [done |-> TRUE,
                   list |-> batchMatch(addressData, cachedJunboAddresses, operInputs)]
    /\ UNCHANGED <<addressData, index, cachedJunboAddresses, operInputs, matchResult,
                   strVars, handlerVars, excelVars, asyncVars, exportVars>>

\* matcher.batchMatch(operInputs)
BatchMatch ==
    /\ results' = [done |-> TRUE,
                   list |-> batchMatch(addressData, cachedJunboAddresses, operInputs)]
    /\ cachedJunboAddresses' =
           [set |-> TRUE,
            list |-> generateAllJunboAddresses(addressData, cachedJunboAddresses)]
    /\ UNCHANGED <<addressData, index, operInputs, matchResult, strVars, handlerVars, excelVars, asyncVars, exportVars>>

\* matcher.match(operInputs[i])
Match(i) ==
    /\ matchResult' = [done |-> TRUE, input |-> i,
                       result |-> match(addressData, index, operInputs[i])]
    /\ UNCHANGED <<addressData, index, cachedJunboAddresses, operInputs, results, strVars,
                   handlerVars, excelVars, asyncVars, exportVars>>

Next ==
    \/ BatchMatch
    \/ \E i \in 1..Len(operInputs) : Match(i)

Spec == Init /\ [][Next]_vars

----------------------------------------------------------------------------
(* The matcher serving a batchMatch request whose records carry codes with *)
(* the character "-".                                                      *)

DashedRecords ==
    { \* the codes 11-2, 1, 31 of another address
      OperInput(<<"x", "Sheng">>, <<"1", "1", "-", "2">>, <<"y", "Shi">>, <<"1">>,
                <<"z", "Qu">>, Code("3", "1")),
      \* the leaf of the dashed catalog with its codes 11, 2-1, 31
      OperInput(<<"b", "c", "Sheng">>, Code("1", "1"), <<"d", "e", "f", "g", "Shi">>,
                <<"2", "-", "1">>, <<"h", "i", "Qu">>, Code("3", "1")),
      \* the codes 11, 21-3, 1
      OperInput(<<>>, Code("1", "1"), <<>>, <<"2", "1", "-", "3">>, <<>>, <<"1">>) }

InitKeys ==
    /\ addressData \in Catalogs \cup {CatalogDashed}
    /\ index = buildIndex(addressData)
    /\ cachedJunboAddresses = [set |-> FALSE, list |-> <<>>]
    /\ operInputs \in SeqsUpTo(DashedRecords \cup ExtraRecords, MaxInputs)
    /\ results = NotRun
    /\ matchResult = NotRun
    /\ str1 = <<>>
    /\ str2 = <<>>
    /\ strOut = NoCall
    /\ HandlerIdle
    /\ ExcelIdle
    /\ AsyncIdle
    /\ ExportIdle

NextKeys == BatchMatch

SpecKeys == InitKeys /\ [][NextKeys]_vars

----------------------------------------------------------------------------
(* One matcher serving batchMatch and batchMatchAsync calls for one        *)
(* request.  batchMatchAsync runs up to its first await, and then from     *)
(* await to await; other calls run in between.                             *)

\* a record for a leaf of the wide catalog: its names, the district code
WideRecord ==
    OperInput(<<"x", "8", "Sheng">>, <<>>, <<"y", "8", "Shi">>, <<>>,
              <<"h", "7", "Qu">>, <<"3", "1", "1", "2">>)

InitAsync ==
    /\ \/ addressData \in Catalogs /\ operInputs \in SeqsUpTo(Records, 1)
       \/ addressData = CatalogWide /\ operInputs = <<WideRecord>>
    /\ index = buildIndex(addressData)
    /\ cachedJunboAddresses = [set |-> FALSE, list |-> <<>>]
    /\ results = NotRun
    /\ matchResult = NotRun
    /\ str1 = <<>>
    /\ str2 = <<>>
    /\ strOut = NoCall
    /\ HandlerIdle
    /\ ExcelIdle
    /\ AsyncIdle
    /\ ExportIdle

\* batchMatchAsync(operInputs) up to its first await: the address list, the
\* indexes, the callbacks of the first chunk queued
BatchMatchAsyncStart ==
    /\ ~asyncResults.running
    /\ cachedJunboAddresses' =
           [set |-> TRUE,
            list |-> generateAllJunboAddresses(addressData, cachedJunboAddresses)]
    /\ asyncResults' =
           IF generateAllJunboAddresses(addressData, cachedJunboAddresses) = <<>>
           THEN [done |-> TRUE, running |-> FALSE, i |-> 0, acc |-> <<>>, list |-> <<>>]
           ELSE [asyncResults EXCEPT !.running = TRUE, !.i = 0, !.acc = <<>>]
    /\ UNCHANGED <<addressData, index, operInputs, results, matchResult, strVars,
                   handlerVars, excelVars, exportVars>>

\* batchMatchAsync from the await of a chunk to the next await or to its end
BatchMatchAsyncChunk ==
    /\ asyncResults.running
    /\ asyncResults' =
           AsyncAfterChunk(asyncResults, cachedJunboAddresses.list,
                           asyncResults.acc \o AsyncChunk(cachedJunboAddresses.list,
                                                          asyncResults.i, operInputs))
    /\ UNCHANGED <<matcherVars, strVars, handlerVars, excelVars, exportVars>>

NextAsync ==
    \/ BatchMatch
    \/ BatchMatchAsyncStart
    \/ BatchMatchAsyncChunk

SpecAsync == InitAsync /\ [][NextAsync]_vars

----------------------------------------------------------------------------
(* The spreadsheet collaborators around one request: a workbook is         *)
(* uploaded or written from the results, and read.                         *)

InitExcel ==
    /\ addressData \in Catalogs
    /\ index = buildIndex(addressData)
    /\ cachedJunboAddresses = [set |-> FALSE, list |-> <<>>]
    /\ operInputs \in SeqsUpTo(Records, 1)
    /\ results = NotRun
    /\ matchResult = NotRun
    /\ str1 = <<>>
    /\ str2 = <<>>
    /\ strOut = NoCall
    /\ HandlerIdle
    /\ ExcelIdle
    /\ AsyncIdle
    /\ ExportIdle

\* a user uploads a workbook holding the records of the request
UploadWorkbook(english) ==
    /\ sheet' = [kind |-> "uploaded",
                 rows |-> [k \in 1..Len(operInputs) |-> UploadedRow(operInputs[k], english)]]
    /\ UNCHANGED <<readBack, matcherVars, strVars, handlerVars, asyncVars, exportVars>>

\* writeExcel(outputData, ...) with the output records of the results
WriteExcel ==
    /\ results.done
    /\ sheet' = writeExcel([k \in 1..Len(results.list) |-> results.list[k].output])
    /\ UNCHANGED <<readBack, matcherVars, strVars, handlerVars, asyncVars, exportVars>>

\* readExcel(file) with the workbook
ReadExcel ==
    /\ sheet.kind # "none"
    /\ readBack' = [done |-> TRUE, kind |-> sheet.kind, rows |-> Len(sheet.rows),
                    list |-> readExcel(sheet)]
    /\ UNCHANGED <<sheet, matcherVars, strVars, handlerVars, asyncVars, exportVars>>

NextExcel ==
    \/ BatchMatch
    \/ \E english \in BOOLEAN : UploadWorkbook(english)
    \/ WriteExcel
    \/ ReadExcel

SpecExcel == InitExcel /\ [][NextExcel]_vars

----------------------------------------------------------------------------
(* The matcher of src/unnamed/part_006 serving one record. *)

\* a record whose city column holds the province and the city: steps 1 to 3
\* find nothing for it
JoinedRecord ==
    OperInput(<<>>, <<>>, <<"b", "c", "Sheng", "d", "e", "f", "g", "Shi">>, <<>>,
              <<"h", "i", "Qu">>, <<>>)

InitParse ==
    /\ addressData \in Catalogs
    /\ index = buildIndex(addressData)
    /\ cachedJunboAddresses = [set |-> FALSE, list |-> <<>>]
    /\ operInputs \in { <<r>> : r \in ProductRecords \cup {JoinedRecord} }
    /\ results = NotRun
    /\ matchResult = NotRun
    /\ str1 = <<>>
    /\ str2 = <<>>
    /\ strOut = NoCall
    /\ HandlerIdle
    /\ ExcelIdle
    /\ AsyncIdle
    /\ ExportIdle

\* matcher.match(operInputs[i]) of part_006, the parse library returning parsed
MatchWithParse(i, parsed) ==
    /\ matchResult' = [done |-> TRUE, input |-> i,
                       result |-> matchWithParse(addressData, index, operInputs[i], parsed)]
    /\ UNCHANGED <<addressData, index, cachedJunboAddresses, operInputs, results, strVars,
                   handlerVars, excelVars, asyncVars, exportVars>>

NextParse ==
    \/ BatchMatch
    \/ \E i \in 1..Len(operInputs) :
          \E parsed \in ParsedAddresses(index, operInputs[i]) : MatchWithParse(i, parsed)

SpecParse == InitParse /\ [][NextParse]_vars

----------------------------------------------------------------------------
(* The pure string functions, applied to strings drawn from bounded sets. *)

InitNorm ==
    /\ str1 \in StringsUpTo(NormAlphabet, MaxStrLen + 1)
    /\ str2 = <<>>
    /\ strOut = NoCall
    /\ MatcherIdle
    /\ HandlerIdle
    /\ ExcelIdle
    /\ AsyncIdle
    /\ ExportIdle

\* a call normalizeName(str1)
CallNormalizeName ==
    /\ strOut.op = "none"
    /\ strOut' = [op |-> "normalizeName", value |-> normalizeName(str1)]
    /\ UNCHANGED <<str1, str2, matcherVars, handlerVars, excelVars, asyncVars, exportVars>>

NextNorm == CallNormalizeName

SpecNorm == InitNorm /\ [][NextNorm]_vars

InitSim ==
    /\ str1 \in StringsUpTo(StrAlphabet, MaxStrLen)
    /\ str2 \in StringsUpTo(StrAlphabet, MaxStrLen)
    /\ strOut = NoCall
    /\ MatcherIdle
    /\ HandlerIdle
    /\ ExcelIdle
    /\ AsyncIdle
    /\ ExportIdle

\* a call similarity(str1, str2)
CallSimilarity ==
    /\ strOut.op = "none"
    /\ strOut' = [op |-> "similarity", value |-> similarity(str1, str2)]
    /\ UNCHANGED <<str1, str2, matcherVars, handlerVars, excelVars, asyncVars, exportVars>>

NextSim == CallSimilarity

SpecSim == InitSim /\ [][NextSim]_vars

----------------------------------------------------------------------------
(* Claims about the pure string functions. *)

\* C7: normalizeName is idempotent: normalizing the result of normalizeName
\* once more returns it unchanged.
C7_NormalizeIdempotent ==
    strOut.op # "none" => normalizeName(strOut.value) = strOut.value

\* C8: similarity is symmetric: similarity(str1, str2) equals
\* similarity(str2, str1).
C8_SimilaritySymmetric ==
    strOut.op # "none" => strOut.value = similarity(str2, str1)

\* a call whose arguments differ, one normalized form a proper prefix of the
\* other with at least two characters, has returned
C8_Witness ==
    /\ strOut.op # "none"
    /\ str1 # str2
    /\ normalizeName(str1) # normalizeName(str2)
    /\ Len(normalizeName(str1)) >= 2
    /\ StartsWith(normalizeName(str2), normalizeName(str1))
    /\ strOut.value > 0

\* C9: similarity is between 0 and 1, is 0 when either string is empty and
\* is 1 for two equal non-empty strings.
C9_SimilarityBounded ==
    strOut.op # "none" =>
        /\ 0 <= strOut.value
        /\ strOut.value <= Unit
        /\ (str1 = <<>> \/ str2 = <<>>) => strOut.value = 0
        /\ (str1 = str2 /\ str1 # <<>>) => strOut.value = Unit

\* a call on two strings of different lengths, neither normalized form
\* containing the other, has returned a score strictly between 0 and 1
C9_Witness ==
    /\ strOut.op # "none"
    /\ Len(str1) < Len(str2)
    /\ ~Includes(normalizeName(str2), normalizeName(str1))
    /\ 0 < strOut.value
    /\ strOut.value < Unit

\* the length quotient minLen / maxLen of two strings, as a score
LengthRatio(a, b) == (Min(Len(a), Len(b)) * Unit) \div Max(Len(a), Len(b))

\* one string is a prefix of the other
PrefixEitherWay(a, b) ==
    \/ Len(a) <= Len(b) /\ SubSeq(b, 1, Len(a)) = a
    \/ Len(b) <= Len(a) /\ SubSeq(a, 1, Len(b)) = b

\* one string occurs in the other
ContainsEitherWay(a, b) ==
    \/ \E k \in 0..(Len(b) - Len(a)) : SubSeq(b, k + 1, k + Len(a)) = a
    \/ \E k \in 0..(Len(a) - Len(b)) : SubSeq(a, k + 1, k + Len(b)) = b

\* the value the formula of the similarity gives for two non-empty, unequal
\* strings with the normalized forms n1 # n2
FormulaValue(a, b, n1, n2) ==
    IF ContainsEitherWay(n1, n2)
    THEN IF Min(Len(n1), Len(n2)) >= 2
         THEN IF PrefixEitherWay(n1, n2)
              THEN Min(Pct(95), (LengthRatio(n1, n2) * 95) \div 100 + Pct(10))
              ELSE Min(Pct(90), (LengthRatio(n1, n2) * 90) \div 100 + Pct(5))
         ELSE (LengthRatio(n1, n2) * 80) \div 100
    ELSE Unit - (levenshteinDistance(a, b) * Unit) \div Max(Len(a), Len(b))

\* C24: for non-empty, unequal strings whose normalized forms differ,
\* similarity is min(0.95, r*0.95 + 0.1) for a prefix containment of the
\* normalized forms with minLen >= 2, min(0.9, r*0.9 + 0.05) for another
\* containment with minLen >= 2, r*0.8 for a containment with minLen < 2, and
\* otherwise 1 - editDistance/maxLen of the raw strings.
C24_SimilarityFormula ==
    ( /\ strOut.op # "none"
      /\ str1 # <<>> /\ str2 # <<>> /\ str1 # str2
      /\ normalizeName(str1) # normalizeName(str2) ) =>
        strOut.value = FormulaValue(str1, str2, normalizeName(str1), normalizeName(str2))

\* a call has returned the edit score of two raw strings that differs from
\* the edit score of their normalized forms
C24_Witness ==
    /\ strOut.op # "none"
    /\ str1 # <<>> /\ str2 # <<>>
    /\ normalizeName(str1) # normalizeName(str2)
    /\ ~ContainsEitherWay(normalizeName(str1), normalizeName(str2))
    /\ normalizeName(str1) # str1
    /\ strOut.value # EditScore(normalizeName(str1), normalizeName(str2))
    /\ strOut.value > 0

----------------------------------------------------------------------------
(* Claims about batchMatch and match.  The leaves of the catalog are       *)
(* collected here from the catalog itself, not from the matcher's walk.    *)

\* the entries under a key whose value is a string
StringEntries(key) ==
    { EntriesOf(addressData, key)[n] : n \in
        { m \in 1..Len(EntriesOf(addressData, key)) :
            EntriesOf(addressData, key)[m].isString } }

LeafOf(p, c, d) ==
    [provinceCode |-> p.code, provinceName |-> p.value,
     cityCode |-> c.code, cityName |-> c.value,
     districtCode |-> d.code, districtName |-> d.value]

\* the (province, city, district) leaves of the catalog
Leaves ==
    UNION { UNION { { LeafOf(p, c, d) : d \in StringEntries(c.code) } :
                    c \in StringEntries(p.code) } :
            p \in StringEntries(RootKey) }

\* the output record res is the one of the leaf
IsFor(res, leaf) ==
    /\ res.output.junbo_province_name = leaf.provinceName
    /\ res.output.junbo_city_name = leaf.cityName
    /\ res.output.junbo_district_name = leaf.districtName

\* the positions of the output records of a leaf
ResultsFor(leaf) == { k \in 1..Len(results.list) : IsFor(results.list[k], leaf) }

\* the record carries the three codes of the leaf
CarriesTuple(r, leaf) ==
    /\ r.provinceCode = leaf.provinceCode
    /\ r.cityCode = leaf.cityCode
    /\ r.districtCode = leaf.districtCode

\* the record has blank codes and exactly the names of the leaf
BlankCodesExactNames(r, leaf) ==
    /\ r.provinceCode = <<>> /\ r.cityCode = <<>> /\ r.districtCode = <<>>
    /\ r.provinceName = leaf.provinceName
    /\ r.cityName = leaf.cityName
    /\ r.districtName = leaf.districtName

SharesCode(a, b) == a # <<>> /\ a = b

SharesName(a, b) == getNormalized(a) # <<>> /\ getNormalized(a) = getNormalized(b)

\* the record shares a code with the leaf at some level
SharesSomeCode(r, leaf) ==
    \/ SharesCode(r.provinceCode, leaf.provinceCode)
    \/ SharesCode(r.cityCode, leaf.cityCode)
    \/ SharesCode(r.districtCode, leaf.districtCode)

\* the record shares a normalized name with the leaf at some level
SharesSomeName(r, leaf) ==
    \/ SharesName(r.provinceName, leaf.provinceName)
    \/ SharesName(r.cityName, leaf.cityName)
    \/ SharesName(r.districtName, leaf.districtName)

\* the input records (by position) that share a code with the leaf
CodeSharers(leaf) == { i \in 1..Len(operInputs) : SharesSomeCode(operInputs[i], leaf) }

\* C1: for every catalog leaf whose three codes appear together in some input
\* record, the output record of the leaf has score 1.0, method code and
\* confidence high, whatever the other input records are.
C1_CodeTupleSupremacy ==
    results.done =>
        \A leaf \in Leaves :
            (\E i \in 1..Len(operInputs) : CarriesTuple(operInputs[i], leaf)) =>
                /\ ResultsFor(leaf) # {}
                /\ \A k \in ResultsFor(leaf) :
                      /\ results.list[k].output.match_score = Unit
                      /\ results.list[k].output.match_method = "code"
                      /\ results.list[k].output.confidence = "high"

\* batchMatch has returned for a request in which a record with blank codes
\* and the exact names of a leaf comes before a record with the leaf's three
\* codes, and the latter was selected
C1_Witness ==
    /\ results.done
    /\ \E leaf \in Leaves : \E i, j \in 1..Len(operInputs) :
          /\ j < i
          /\ CarriesTuple(operInputs[i], leaf)
          /\ BlankCodesExactNames(operInputs[j], leaf)
          /\ \A k \in ResultsFor(leaf) :
                /\ results.list[k].output.oper_district_code = leaf.districtCode
                /\ results.list[k].output.match_method = "code"

\* C2: the output list of batchMatch has exactly one record per leaf of the
\* catalog, so its length is the number of leaves, whatever the input
\* records are and whether or not a leaf matched.
C2_OneRecordPerLeaf ==
    results.done =>
        /\ Len(results.list) = Cardinality(Leaves)
        /\ \A leaf \in Leaves : Cardinality(ResultsFor(leaf)) = 1

\* batchMatch has returned for a catalog of several leaves with a matched and
\* an unmatched leaf, the request holding more records than there are leaves
C2_Witness ==
    /\ results.done
    /\ Cardinality(Leaves) > 1
    /\ Len(operInputs) > Cardinality(Leaves)
    /\ \E k \in 1..Len(results.list) : results.list[k].output.match_score = 0
    /\ \E k \in 1..Len(results.list) : results.list[k].output.match_score > 0

\* a comes strictly before b: a is a proper prefix of b, or the first
\* character in which they differ is the smaller one in a
NameBefore(a, b) ==
    \E n \in 1..Len(b) :
        /\ n <= Len(a) + 1
        /\ SubSeq(a, 1, n - 1) = SubSeq(b, 1, n - 1)
        /\ (n = Len(a) + 1 \/ CharRank(a[n]) < CharRank(b[n]))

\* the name triple of x is not greater than that of y
TripleNotGreater(x, y) ==
    \/ NameBefore(x.junbo_province_name, y.junbo_province_name)
    \/ /\ x.junbo_province_name = y.junbo_province_name
       /\ \/ NameBefore(x.junbo_city_name, y.junbo_city_name)
          \/ /\ x.junbo_city_name = y.junbo_city_name
             /\ \/ NameBefore(x.junbo_district_name, y.junbo_district_name)
                \/ x.junbo_district_name = y.junbo_district_name

\* C3: the list batchMatch returns is ordered by reference province name,
\* then city name, then district name: of two adjacent records the name
\* triple of the first is not greater than that of the second.
C3_SortedByNames ==
    results.done =>
        \A k \in 1..(Len(results.list) - 1) :
            TripleNotGreater(results.list[k].output, results.list[k + 1].output)

\* batchMatch has returned a list whose first record is not the first
\* address of the walk over the catalog
C3_Witness ==
    /\ results.done
    /\ Len(results.list) >= 2
    /\ cachedJunboAddresses.set
    /\ results.list[1].output.junbo_province_name
           # cachedJunboAddresses.list[1].provinceName

\* C4: for every input record scored against a reference address the city
\* level contributes only if the province level matched and the district
\* level only if the city level matched: a record whose province does not
\* match scores 0, a record whose city does not match scores no more than the
\* province weight and has no district match, and so does every selected
\* record.
C4_ContainmentGating ==
    results.done =>
        \A leaf \in Leaves :
            /\ \A i \in 1..Len(operInputs) :
                  /\ ~ScoreCandidate(leaf, operInputs[i]).provinceMatched =>
                        /\ ScoreCandidate(leaf, operInputs[i]).score = 0
                        /\ ~ScoreCandidate(leaf, operInputs[i]).cityMatched
                  /\ ~ScoreCandidate(leaf, operInputs[i]).cityMatched =>
                        /\ ScoreCandidate(leaf, operInputs[i]).score <= Pct(25)
                        /\ ~ScoreCandidate(leaf, operInputs[i]).districtExactMatch
                        /\ ~ScoreCandidate(leaf, operInputs[i]).districtFuzzyMatch
            /\ \A k \in ResultsFor(leaf) :
                  results.list[k].output.match_score > Pct(25) =>
                      /\ ScoreCandidate(leaf, results.list[k].input).provinceMatched
                      /\ ScoreCandidate(leaf, results.list[k].input).cityMatched

\* batchMatch has returned for a request with a record that has the city and
\* district codes of a leaf under another province, which scores 0, and a
\* record that has the leaf's province and district codes and another city,
\* which was selected with the province weight alone
C4_Witness ==
    /\ results.done
    /\ \E leaf \in Leaves : \E i, j \in 1..Len(operInputs) :
          /\ operInputs[i].cityCode = leaf.cityCode
          /\ operInputs[i].districtCode = leaf.districtCode
          /\ operInputs[i].provinceCode \notin {<<>>, leaf.provinceCode}
          /\ ScoreCandidate(leaf, operInputs[i]).score = 0
          /\ operInputs[j].provinceCode = leaf.provinceCode
          /\ operInputs[j].districtCode = leaf.districtCode
          /\ ~ScoreCandidate(leaf, operInputs[j]).cityMatched
          /\ \A k \in ResultsFor(leaf) :
                /\ results.list[k].output.match_score = Pct(25)
                /\ results.list[k].input = operInputs[j]

\* C5 as stated: whenever some input record has blank codes and exactly the
\* names of a leaf, the output record of the leaf has method exact, a score of
\* at least 0.9 and confidence high, whatever the other input records are.
C5_ExactNamesAlwaysExact ==
    results.done =>
        \A leaf \in Leaves :
            (\E i \in 1..Len(operInputs) : BlankCodesExactNames(operInputs[i], leaf)) =>
                \A k \in ResultsFor(leaf) :
                    /\ results.list[k].output.match_method = "exact"
                    /\ results.list[k].output.match_score >= Pct(90)
                    /\ results.list[k].output.confidence = "high"

\* C5: whenever some input record has blank codes and exactly the names of a
\* leaf, one of them with a non-empty normalized form, and fewer than 10 input
\* records share a code with the leaf or some record carries its three codes,
\* the output record of the leaf has score 1.0 and confidence high; its method
\* is code when the selected record carries the leaf's province code and
\* exact when the selected record has a blank province code and the leaf's
\* province name.
C5_ExactNamesFewCodeSharers ==
    results.done =>
        \A leaf \in Leaves :
            ( /\ \E i \in 1..Len(operInputs) : BlankCodesExactNames(operInputs[i], leaf)
              /\ \/ getNormalized(leaf.provinceName) # <<>>
                 \/ getNormalized(leaf.cityName) # <<>>
                 \/ getNormalized(leaf.districtName) # <<>>
              /\ \/ Cardinality(CodeSharers(leaf)) < CandidateThreshold
                 \/ \E i \in 1..Len(operInputs) : CarriesTuple(operInputs[i], leaf) ) =>
                \A k \in ResultsFor(leaf) :
                    /\ results.list[k].output.match_score = Unit
                    /\ results.list[k].output.confidence = "high"
                    /\ results.list[k].output.oper_province_code = leaf.provinceCode =>
                          results.list[k].output.match_method = "code"
                    /\ ( /\ results.list[k].output.oper_province_code = <<>>
                         /\ results.list[k].output.oper_province_name = leaf.provinceName ) =>
                          results.list[k].output.match_method = "exact"

\* batchMatch has returned for a request in which one record short of 10
\* share a code with a leaf and a further record has blank codes and the
\* leaf's exact names, and that record was selected with method exact
C5_Witness ==
    /\ results.done
    /\ \E leaf \in Leaves :
          /\ \E i \in 1..Len(operInputs) : BlankCodesExactNames(operInputs[i], leaf)
          /\ Cardinality(CodeSharers(leaf)) = CandidateThreshold - 1
          /\ \A k \in ResultsFor(leaf) :
                /\ results.list[k].output.match_score = Unit
                /\ results.list[k].output.match_method = "exact"
                /\ results.list[k].output.oper_province_code = <<>>

BandOf(score) ==
    CASE score >= Pct(90) -> "high"
      [] Pct(60) <= score /\ score < Pct(90) -> "medium"
      [] 0 < score /\ score < Pct(60) -> "low"
      [] score = 0 -> "none"

\* C10: the confidence of every result of match and of batchMatch is fixed by
\* its score (high from 0.9, medium from 0.6, low above 0, none at 0), and an
\* output record of batchMatch has needsConfirmation true exactly when its
\* confidence is low or none.
C10_ConfidenceBands ==
    /\ results.done =>
          \A k \in 1..Len(results.list) :
              /\ results.list[k].output.confidence
                     = BandOf(results.list[k].output.match_score)
              /\ results.list[k].needsConfirmation
                     <=> results.list[k].output.confidence \in {"low", "none"}
    /\ matchResult.done =>
          matchResult.result.confidence = BandOf(matchResult.result.matchScore)

\* batchMatch has returned a record of each of the bands medium and none,
\* and match has returned a result of the medium band
C10_Witness ==
    /\ results.done
    /\ matchResult.done
    /\ matchResult.result.confidence = "medium"
    /\ \E k \in 1..Len(results.list) : results.list[k].output.confidence = "medium"
    /\ \E k \in 1..Len(results.list) : results.list[k].output.confidence = "none"

----------------------------------------------------------------------------
(* Claims about the upload handlers. *)

\* C11: whatever the interleaving of the requests that call getMatcher, the
\* catalog is loaded and an AddressMatcher is constructed at most once, and
\* all requests receive the same matcher instance.
C11_SingleFlight ==
    /\ loadCalls <= 1
    /\ constructed <= 1
    /\ \A c, d \in Callers :
          (returned[c] # 0 /\ returned[d] # 0) => returned[c] = returned[d]

----------------------------------------------------------------------------
(* Claims about the results of both matchers. *)

\* C12: every match result, of match (with its address-parse fallback) and of
\* batchMatch, has a score from 0 to 1 and a method that is one of code,
\* exact, fuzzy and none.
C12_ScoreAndMethodDomain ==
    /\ results.done =>
          \A k \in 1..Len(results.list) :
              /\ 0 <= results.list[k].output.match_score
              /\ results.list[k].output.match_score <= Unit
              /\ results.list[k].output.match_method \in {"code", "exact", "fuzzy", "none"}
    /\ matchResult.done =>
          /\ 0 <= matchResult.result.matchScore
          /\ matchResult.result.matchScore <= Unit
          /\ matchResult.result.matchMethod \in {"code", "exact", "fuzzy", "none"}

\* the scored candidates of a leaf in the request
ScoredFor(leaf) ==
    ScoredCandidates(leaf, operInputs,
                     getCandidateInputs(leaf, BuildInputIndexes(operInputs)))

\* the district of the record agrees with the leaf's by code, by name or by
\* normalized name
DistrictAgrees(r, leaf) ==
    \/ SharesCode(r.districtCode, leaf.districtCode)
    \/ (r.districtName # <<>> /\ r.districtName = leaf.districtName)
    \/ SharesName(r.districtName, leaf.districtName)

\* the candidates (by position in cands) whose district was matched by code,
\* exact name or equal normalized name: the district level is reached with
\* province and city matched only, and the score is 0.5 or more only then
ExactGroup(cands, leaf) ==
    { n \in 1..Len(cands) :
        /\ DistrictAgrees(operInputs[cands[n].input], leaf)
        /\ cands[n].score >= Pct(50) }

\* the output record res selects a highest-scoring candidate of the pool
SelectsHighestOf(res, cands, pool) ==
    \E n \in pool :
        /\ res.input = operInputs[cands[n].input]
        /\ res.output.match_score = cands[n].score
        /\ \A m \in pool : cands[m].score <= cands[n].score

\* the selection of res among cands, the group given
SelectionRule(res, cands, group) ==
    /\ group # {} => SelectsHighestOf(res, cands, group)
    /\ (group = {} /\ cands # <<>>) => SelectsHighestOf(res, cands, 1..Len(cands))

\* C13: for a leaf without a record carrying its three codes, if some scored
\* candidate has its district matched by code, exact name or equal normalized
\* name, the selected record is a highest-scoring candidate of that group,
\* even when a candidate outside the group scores strictly higher; if the
\* group is empty, the selected record is a highest-scoring candidate of all.
C13_ExactDistrictGroupFirst ==
    results.done =>
        \A leaf \in Leaves :
            (\A i \in 1..Len(operInputs) : ~CarriesTuple(operInputs[i], leaf)) =>
                \A k \in ResultsFor(leaf) :
                    SelectionRule(results.list[k], ScoredFor(leaf),
                                  ExactGroup(ScoredFor(leaf), leaf))

\* a candidate outside the group scores strictly higher than every one in it
OutscoredGroup(cands, group) ==
    /\ group # {}
    /\ \E o \in (1..Len(cands)) \ group : \A n \in group : cands[o].score > cands[n].score

\* batchMatch has returned for a request in which, for some leaf, a candidate
\* outside the district-exact group outscores the whole group
C13_Witness ==
    /\ results.done
    /\ \E leaf \in Leaves :
          /\ \A i \in 1..Len(operInputs) : ~CarriesTuple(operInputs[i], leaf)
          /\ ResultsFor(leaf) # {}
          /\ OutscoredGroup(ScoredFor(leaf), ExactGroup(ScoredFor(leaf), leaf))

\* a level matched through a name whose normalized form differs from the
\* reference name's has a similarity of at least the threshold
NameAcceptedAbove(matched, byCode, name, refName, threshold) ==
    (matched /\ ~byCode /\ getNormalized(name) # getNormalized(refName)) =>
        similarity(getNormalized(name), getNormalized(refName)) >= threshold

\* the thresholds hold for the levels at which the batch scoring s matched
\* the record r with the leaf
BatchThresholds(s, r, leaf) ==
    /\ NameAcceptedAbove(s.provinceMatched, SharesCode(r.provinceCode, leaf.provinceCode),
                         r.provinceName, leaf.provinceName, Pct(80))
    /\ NameAcceptedAbove(s.cityMatched, SharesCode(r.cityCode, leaf.cityCode),
                         r.cityName, leaf.cityName, Pct(80))
    /\ NameAcceptedAbove(s.districtExactMatch \/ s.districtFuzzyMatch,
                         SharesCode(r.districtCode, leaf.districtCode),
                         r.districtName, leaf.districtName, Pct(85))

\* the thresholds hold for the levels match found for the record r
MatchThresholds(junbo, r) ==
    /\ NameAcceptedAbove(junbo.provinceCode # <<>>, junbo.provinceCode = r.provinceCode,
                         r.provinceName, junbo.provinceName, Pct(80))
    /\ NameAcceptedAbove(junbo.cityCode # <<>>, junbo.cityCode = r.cityCode,
                         r.cityName, junbo.cityName, Pct(80))
    /\ NameAcceptedAbove(junbo.districtCode # <<>>, junbo.districtCode = r.districtCode,
                         r.districtName, junbo.districtName, Pct(85))

\* C14: in both matching modes, a name whose normalized form differs from the
\* reference name's normalized form is accepted as a match at the province or
\* city level only if its similarity is at least 0.8, and at the district
\* level only if its similarity is at least 0.85.
C14_AcceptanceThresholds ==
    /\ results.done =>
          \A leaf \in Leaves : \A k \in ResultsFor(leaf) :
              (/\ results.list[k].output.match_score > 0
               /\ \A i \in 1..Len(operInputs) : ~CarriesTuple(operInputs[i], leaf)) =>
                  BatchThresholds(ScoreCandidate(leaf, results.list[k].input),
                                  results.list[k].input, leaf)
    /\ matchResult.done =>
          MatchThresholds(matchResult.result.junbo, operInputs[matchResult.input])

\* every level the batch scoring s matched for the record r was matched by
\* the code of the leaf
BatchLevelsByCode(s, r, leaf) ==
    /\ s.provinceMatched => SharesCode(r.provinceCode, leaf.provinceCode)
    /\ s.cityMatched => SharesCode(r.cityCode, leaf.cityCode)
    /\ (s.districtExactMatch \/ s.districtFuzzyMatch) =>
           SharesCode(r.districtCode, leaf.districtCode)

\* every level match found for the record r was found by the code of r
MatchLevelsByCode(junbo, r) ==
    /\ junbo.provinceCode # <<>> => junbo.provinceCode = r.provinceCode
    /\ junbo.cityCode # <<>> => junbo.cityCode = r.cityCode
    /\ junbo.districtCode # <<>> => junbo.districtCode = r.districtCode

\* C15: a match result has method code only if every level that matched was
\* matched by code equality; a result in which some matched level was matched
\* by name does not have method code.
C15_CodeMethodOnlyByCodes ==
    /\ results.done =>
          \A leaf \in Leaves : \A k \in ResultsFor(leaf) :
              results.list[k].output.match_method = "code" =>
                  \/ CarriesTuple(results.list[k].input, leaf)
                  \/ BatchLevelsByCode(ScoreCandidate(leaf, results.list[k].input),
                                       results.list[k].input, leaf)
    /\ (matchResult.done /\ matchResult.result.matchMethod = "code") =>
          MatchLevelsByCode(matchResult.result.junbo, operInputs[matchResult.input])

\* the positions of the input records scored for the leaf: the candidates,
\* when no record carries the three codes of the leaf
ScoredPositions(leaf) ==
    IF \E i \in 1..Len(operInputs) : CarriesTuple(operInputs[i], leaf)
    THEN {}
    ELSE { getCandidateInputs(leaf, BuildInputIndexes(operInputs))[n] :
             n \in 1..Len(getCandidateInputs(leaf, BuildInputIndexes(operInputs))) }

\* the record with its district columns blank
WithoutDistrict(r) == [r EXCEPT !.districtName = <<>>, !.districtCode = <<>>]

\* province and city of the record matched, its district code is not the
\* leaf's, and the district names have equal, non-empty normalized forms
NormalizedDistrictCase(s, r, leaf) ==
    /\ s.provinceMatched /\ s.cityMatched
    /\ r.districtCode # leaf.districtCode
    /\ SharesName(r.districtName, leaf.districtName)

\* the district level added the full weight and marked the candidate
FullDistrictWeight(s, r, leaf) ==
    /\ s.districtExactMatch
    /\ s.score = ScoreCandidate(leaf, WithoutDistrict(r)).score + Pct(50)

\* C16: in batch matching, a candidate whose province and city matched and
\* whose district code is not the reference's, with district names of equal,
\* non-empty normalized forms, gets the full district weight 0.5 and counts as
\* a district-exact candidate.
C16_NormalizedDistrictIsExact ==
    results.done =>
        \A leaf \in Leaves : \A i \in ScoredPositions(leaf) :
            NormalizedDistrictCase(ScoreCandidate(leaf, operInputs[i]), operInputs[i], leaf) =>
                FullDistrictWeight(ScoreCandidate(leaf, operInputs[i]), operInputs[i], leaf)

\* batchMatch has scored a candidate whose district name lacks the suffix of
\* the leaf's, province and city matched
C16_Witness ==
    /\ results.done
    /\ \E leaf \in Leaves : \E i \in ScoredPositions(leaf) :
          /\ NormalizedDistrictCase(ScoreCandidate(leaf, operInputs[i]), operInputs[i], leaf)
          /\ operInputs[i].districtName # leaf.districtName
          /\ \E k \in ResultsFor(leaf) : results.list[k].input = operInputs[i]

\* C17: when no record carries the three codes of a leaf, every input record
\* scored for the leaf shares with it a province, city or district code or a
\* normalized province, city or district name; no other record is scored for
\* it, and the selected record is one of the scored.
C17_OnlySharersScored ==
    results.done =>
        \A leaf \in Leaves :
            (\A i \in 1..Len(operInputs) : ~CarriesTuple(operInputs[i], leaf)) =>
                /\ \A i \in ScoredPositions(leaf) :
                      SharesSomeCode(operInputs[i], leaf) \/ SharesSomeName(operInputs[i], leaf)
                /\ \A k \in ResultsFor(leaf) :
                      results.list[k].output.match_score > 0 =>
                          \E i \in ScoredPositions(leaf) :
                              results.list[k].input = operInputs[i]

\* batchMatch has returned for a request with a record scored for a leaf and
\* a record, sharing nothing with the leaf, that was not scored for it
C17_Witness ==
    /\ results.done
    /\ \E leaf \in Leaves :
          /\ \A i \in 1..Len(operInputs) : ~CarriesTuple(operInputs[i], leaf)
          /\ ScoredPositions(leaf) # {}
          /\ \E i \in 1..Len(operInputs) :
                /\ i \notin ScoredPositions(leaf)
                /\ ~SharesSomeCode(operInputs[i], leaf)
                /\ ~SharesSomeName(operInputs[i], leaf)

\* the cache holds the enumeration of the catalog's leaves, each once
CacheIsEnumeration(cache) ==
    /\ cache.set
    /\ Len(cache.list) = Cardinality(Leaves)
    /\ { cache.list[n] : n \in 1..Len(cache.list) } = Leaves

\* C18: any sequence of batchMatch calls leaves the catalog, the index and
\* every field of every input record unchanged; the cache alone changes, from
\* unset to the enumerated list on the first call, and never afterwards.
C18_BatchMatchFrame ==
    [][ /\ addressData' = addressData
        /\ index' = index
        /\ operInputs' = operInputs
        /\ cachedJunboAddresses.set => cachedJunboAddresses' = cachedJunboAddresses
        /\ results'.done => CacheIsEnumeration(cachedJunboAddresses')
        /\ (~results.done /\ ~results'.done) => UNCHANGED cachedJunboAddresses ]_vars

\* batchMatch has returned, the cache is set, and match has run as well
C18_Witness ==
    /\ results.done
    /\ matchResult.done
    /\ cachedJunboAddresses.set
    /\ cachedJunboAddresses.list # <<>>

\* the index entries the well-formed provinces, cities and districts give:
\* string values under string values, from the catalog itself
WellFormedProvinces ==
    { [name |-> p.value, code |-> p.code, provinceCode |-> <<>>, cityCode |-> <<>>] :
        p \in StringEntries(RootKey) }

WellFormedCities ==
    UNION { { [name |-> c.value, code |-> c.code, provinceCode |-> p.code,
               cityCode |-> <<>>] : c \in StringEntries(p.code) } :
            p \in StringEntries(RootKey) }

WellFormedDistricts ==
    { [name |-> l.districtName, code |-> l.districtCode,
       provinceCode |-> l.provinceCode, cityCode |-> l.cityCode] : l \in Leaves }

\* the Map holds an entry of the set for each name of the set, and no other
IndexesExactly(map, entries) ==
    /\ \A n \in 1..Len(map) : map[n] \in entries
    /\ \A e \in entries : \E n \in 1..Len(map) : map[n].name = e.name

\* some province, some city and some district of the catalog is not a string
HasMalformedBranches ==
    /\ \E n \in 1..Len(EntriesOf(addressData, RootKey)) :
          ~EntriesOf(addressData, RootKey)[n].isString
    /\ \E p \in StringEntries(RootKey) : \E n \in 1..Len(EntriesOf(addressData, p.code)) :
          ~EntriesOf(addressData, p.code)[n].isString
    /\ \E p \in StringEntries(RootKey) : \E c \in StringEntries(p.code) :
          \E n \in 1..Len(EntriesOf(addressData, c.code)) :
              ~EntriesOf(addressData, c.code)[n].isString

\* C20: a province, city or district entry whose value is not a string is
\* left out, with everything below it, of the index and of the address list,
\* while every well-formed branch is indexed and enumerated; the constructor
\* and batchMatch return (the index is built, one result row per leaf).
C20_MalformedBranchesSkipped ==
    /\ IndexesExactly(index.provinces, WellFormedProvinces)
    /\ IndexesExactly(index.cities, WellFormedCities)
    /\ IndexesExactly(index.districts, WellFormedDistricts)
    /\ cachedJunboAddresses.set =>
          { cachedJunboAddresses.list[n] : n \in 1..Len(cachedJunboAddresses.list) } = Leaves
    /\ results.done =>
          /\ Len(results.list) = Cardinality(Leaves)
          /\ \A leaf \in Leaves : ResultsFor(leaf) # {}

\* batchMatch has returned on a catalog with a non-string province, city and
\* district, entries below the first two
C20_Witness ==
    /\ HasMalformedBranches
    /\ addressData = CatalogB
    /\ results.done
    /\ cachedJunboAddresses.set

\* C21: for a fixed catalog and fixed input records, batchMatch (chunks of
\* 100) and batchMatchAsync (chunks of 200, Promise.all per chunk) return
\* equal lists, the same output records in the same order, and two
\* invocations of either on the same matcher return equal lists.
C21_AsyncEqualsSync ==
    /\ []((results.done /\ asyncResults.done) => asyncResults.list = results.list)
    /\ [][ /\ (results.done /\ results'.done) => results'.list = results.list
           /\ (asyncResults.done /\ asyncResults'.done) =>
                  asyncResults'.list = asyncResults.list ]_vars

\* both have returned on the wide catalog, whose addresses fill more than a
\* chunk of either, and batchMatchAsync is at its second call
C21_Witness ==
    /\ results.done
    /\ asyncResults.done
    /\ asyncResults.running
    /\ Len(results.list) > asyncBatchSize
    /\ \E k \in 1..Len(results.list) : results.list[k].output.match_score > 0

\* the input records (by position) that share a normalized name with the leaf
NameSharers(leaf) == { i \in 1..Len(operInputs) : SharesSomeName(operInputs[i], leaf) }

\* the input records (by position) getCandidateInputs returns for the leaf
CandidatePositions(leaf) ==
    { getCandidateInputs(leaf, BuildInputIndexes(operInputs))[n] :
        n \in 1..Len(getCandidateInputs(leaf, BuildInputIndexes(operInputs))) }

\* C23: for every leaf, the candidates are the records that share a code with
\* it, and the records that share a normalized name with it are added exactly
\* when fewer than 10 records share a code: from 10 code sharers on, a record
\* that shares only names with the leaf is not a candidate.
C23_NamesBelowThresholdOnly ==
    results.done =>
        \A leaf \in Leaves :
            CandidatePositions(leaf) =
                IF Cardinality(CodeSharers(leaf)) < CandidateThreshold
                THEN CodeSharers(leaf) \cup NameSharers(leaf)
                ELSE CodeSharers(leaf)

\* batchMatch has returned for a request with a leaf that has 10 code sharers
\* and a record, sharing only names with it, that is not a candidate
C23_Witness ==
    /\ results.done
    /\ \E leaf \in Leaves, i \in 1..Len(operInputs) :
          /\ Cardinality(CodeSharers(leaf)) = CandidateThreshold
          /\ i \in NameSharers(leaf) \ CodeSharers(leaf)
          /\ i \notin CandidatePositions(leaf)

\* the method the province level alone gives the record r for the leaf
MethodByProvince(r, leaf) ==
    IF SharesCode(r.provinceCode, leaf.provinceCode) THEN "code"
    ELSE IF \/ r.provinceName = leaf.provinceName
            \/ getNormalized(r.provinceName) = getNormalized(leaf.provinceName)
         THEN "exact"
         ELSE "fuzzy"

\* C27: in staged batch matching the method of every scored candidate is the
\* one its province level gives: code for equal province codes, exact for
\* province names equal raw or normalized, fuzzy otherwise; the city and the
\* district level do not change it.
C27_MethodFromProvinceAlone ==
    results.done =>
        \A leaf \in Leaves : \A n \in 1..Len(ScoredFor(leaf)) :
            ScoredFor(leaf)[n].method =
                MethodByProvince(operInputs[ScoredFor(leaf)[n].input], leaf)

\* batchMatch has returned for a request with a candidate of method exact
\* whose city was matched by code, and a candidate of method code whose
\* district was matched by name alone
C27_Witness ==
    /\ results.done
    /\ \E leaf \in Leaves : \E n \in 1..Len(ScoredFor(leaf)) :
          /\ ScoredFor(leaf)[n].method = "exact"
          /\ SharesCode(operInputs[ScoredFor(leaf)[n].input].cityCode, leaf.cityCode)
    /\ \E leaf \in Leaves : \E n \in 1..Len(ScoredFor(leaf)) :
          /\ ScoredFor(leaf)[n].method = "code"
          /\ ~SharesCode(operInputs[ScoredFor(leaf)[n].input].districtCode,
                         leaf.districtCode)
          /\ ScoredFor(leaf)[n].score > Pct(50)

\* the six matched fields of an output record are empty
NothingSelected(o) ==
    /\ o.oper_province_name = <<>> /\ o.oper_province_code = <<>>
    /\ o.oper_city_name = <<>> /\ o.oper_city_code = <<>>
    /\ o.oper_district_name = <<>> /\ o.oper_district_code = <<>>

\* the input part of a result carries the six matched fields of its output
InputIsMatched(res) ==
    /\ res.input.provinceName = res.output.oper_province_name
    /\ res.input.provinceCode = res.output.oper_province_code
    /\ res.input.cityName = res.output.oper_city_name
    /\ res.input.cityCode = res.output.oper_city_code
    /\ res.input.districtName = res.output.oper_district_name
    /\ res.input.districtCode = res.output.oper_district_code

\* C28: in every output record of batchMatch, no record selected, score 0,
\* method none and confidence none hold together or not at all, and the input
\* part of the result equals the six matched fields of the output.
C28_OutputConsistent ==
    results.done =>
        \A k \in 1..Len(results.list) :
            /\ NothingSelected(results.list[k].output)
                   <=> results.list[k].output.match_score = 0
            /\ results.list[k].output.match_score = 0
                   <=> results.list[k].output.match_method = "none"
            /\ results.list[k].output.match_method = "none"
                   <=> results.list[k].output.confidence = "none"
            /\ InputIsMatched(results.list[k])

\* batchMatch has returned a leaf with nothing selected, although a record
\* of the request was a candidate for it, and a leaf with a record selected
C28_Witness ==
    /\ results.done
    /\ \E leaf \in Leaves : \E k \in ResultsFor(leaf) :
          /\ NothingSelected(results.list[k].output)
          /\ results.list[k].output.confidence = "none"
          /\ CandidatePositions(leaf) # {}
    /\ \E k \in 1..Len(results.list) :
          /\ ~NothingSelected(results.list[k].output)
          /\ results.list[k].output.match_score > 0

\* no other leaf of the catalog has the three names of the leaf
UniqueNameTriple(leaf) ==
    \A other \in Leaves :
        ( /\ other.provinceName = leaf.provinceName
          /\ other.cityName = leaf.cityName
          /\ other.districtName = leaf.districtName ) => other = leaf

\* C29: for every leaf with a name triple unique in the catalog, match on a
\* record with blank codes and exactly the three names of the leaf returns the
\* province, city and district code of the leaf, with confidence high.
C29_ExactNamesFindLeaf ==
    matchResult.done =>
        \A leaf \in Leaves :
            ( /\ UniqueNameTriple(leaf)
              /\ BlankCodesExactNames(operInputs[matchResult.input], leaf) ) =>
                /\ matchResult.result.junbo.provinceCode = leaf.provinceCode
                /\ matchResult.result.junbo.cityCode = leaf.cityCode
                /\ matchResult.result.junbo.districtCode = leaf.districtCode
                /\ matchResult.result.confidence = "high"

\* C26: whenever the lookup by the key provinceCode-cityCode-districtCode
\* hits for a leaf, the record it returns has the province code, the city
\* code and the district code of the leaf, whatever characters the codes of
\* the records hold.
C26_CodeKeyInjective ==
    results.done =>
        \A leaf \in Leaves :
            CodeKey(leaf.provinceCode, leaf.cityCode, leaf.districtCode)
                    \in DOMAIN BuildByCode(operInputs) =>
                CarriesTuple(
                    operInputs[BuildByCode(operInputs)[
                        CodeKey(leaf.provinceCode, leaf.cityCode, leaf.districtCode)]],
                    leaf)

\* the output record carries the record, the score, the method and the
\* confidence of the match result mr
CarriesResult(res, inputs, mr) ==
    /\ res.input = MatchedRecord(inputs, mr.matched)
    /\ res.output.match_score = mr.matchScore
    /\ res.output.match_method = mr.matchMethod
    /\ res.output.confidence = mr.confidence

\* C25: for every leaf, the output record batchMatch computes from the pruned
\* candidates has the selected record, the score, the method and the
\* confidence that matchOperAddressFromJunbo computes for the leaf over the
\* whole list of input records.
C25_PruningKeepsResults ==
    results.done =>
        \A leaf \in Leaves : \A k \in ResultsFor(leaf) :
            CarriesResult(results.list[k], operInputs,
                          matchOperAddressFromJunbo(leaf, operInputs))

----------------------------------------------------------------------------
(* Claims about getMatcher with matcherLoadPromise. *)

Rejected == { p \in 1..Len(promises) : promises[p].status = "rejected" }
Fulfilled == { p \in 1..Len(promises) : promises[p].status = "fulfilled" }

\* C22: a call that arrives while a build is in flight takes the promise of
\* that build and starts nothing; as long as no load has failed,
\* loadAddressData has been called at most once and at most one AddressMatcher
\* constructed; and all callers that got a matcher got the same instance.
C22_SharedBuild ==
    /\ []( /\ \A c \in Callers :
                 (callerPc[c] = "awaitMatcher" /\ promises[awaited[c]].status = "pending")
                     => awaited[c] = matcherLoadPromise
           /\ Rejected = {} => (loadCalls <= 1 /\ constructed <= 1)
           /\ \A c, d \in Callers :
                 (callerPc[c] = "returned" /\ callerPc[d] = "returned")
                     => (returned[c] = returned[d] /\ returned[c] = cachedMatcher) )
    /\ [][ \A c \in Callers :
             (callerPc[c] = "start" /\ callerPc'[c] # "start" /\ matcherLoadPromise # 0)
                 => /\ awaited'[c] = matcherLoadPromise
                    /\ promises' = promises
                    /\ loadCalls' = loadCalls
                    /\ constructed' = constructed ]_vars

\* every request served by one build, two of them through its promise
C22_Witness ==
    /\ \A c \in Callers : callerPc[c] = "returned"
    /\ Cardinality({ c \in Callers : awaited[c] = 1 }) >= 2
    /\ \E c \in Callers : awaited[c] = 0
    /\ loadCalls = 1

\* C30: a failed build is not cached: its promise is rejected for the callers
\* that await it, cachedMatcher is set exactly when a build has succeeded,
\* matcherLoadPromise is null unless a build is in flight, a call that finds
\* both null starts a new build, and a cachedMatcher once set is not replaced.
C30_FailureNotCached ==
    /\ []( /\ (cachedMatcher # 0) <=> (Fulfilled # {})
           /\ matcherLoadPromise # 0 =>
                  (matcherLoadPromise \in 1..Len(promises)
                      /\ promises[matcherLoadPromise].status = "pending")
           /\ \A c \in Callers :
                  callerPc[c] = "failed" => (awaited[c] \in Rejected /\ returned[c] = 0) )
    /\ [][ /\ cachedMatcher # 0 => cachedMatcher' = cachedMatcher
           /\ \A c \in Callers :
                  (callerPc[c] = "awaitMatcher" /\ awaited[c] \in Rejected
                       /\ callerPc'[c] # callerPc[c])
                      => (callerPc'[c] = "failed" /\ returned'[c] = 0)
           /\ \A c \in Callers :
                  (callerPc[c] = "start" /\ callerPc'[c] # "start"
                       /\ matcherLoadPromise = 0 /\ cachedMatcher = 0)
                      => /\ Len(promises') = Len(promises) + 1
                         /\ promises'[Len(promises')].status = "pending"
                         /\ matcherLoadPromise' = Len(promises')
                         /\ awaited'[c] = Len(promises')
                         /\ loadCalls' = loadCalls + 1 ]_vars

\* a failed build with two requests that saw it fail, then a build that
\* succeeded and served a request
C30_Witness ==
    /\ promises # <<>> /\ promises[1].status = "rejected"
    /\ Cardinality({ c \in Callers : callerPc[c] = "failed" /\ awaited[c] = 1 }) >= 2
    /\ Len(promises) = 2 /\ promises[2].status = "fulfilled"
    /\ \E c \in Callers : callerPc[c] = "returned" /\ returned[c] = cachedMatcher
    /\ matcherLoadPromise = 0

----------------------------------------------------------------------------
(* Claims about the spreadsheet collaborators. *)

\* the record read back carries the matched names and codes of the output
ReadsBackMatched(r, output) ==
    /\ r.provinceName = output.oper_province_name
    /\ r.provinceCode = output.oper_province_code
    /\ r.cityName = output.oper_city_name
    /\ r.cityCode = output.oper_city_code
    /\ r.districtName = output.oper_district_name
    /\ r.districtCode = output.oper_district_code

\* C19: for every output record, writing it with writeExcel and reading the
\* written sheet back with readExcel yields an input record whose province,
\* city and district names and codes equal the matched names and codes of
\* that output record.
C19_ExcelRoundTrip ==
    (readBack.done /\ readBack.kind = "written") =>
        /\ Len(readBack.list) = Len(results.list)
        /\ \A k \in 1..Len(readBack.list) :
              ReadsBackMatched(readBack.list[k], results.list[k].output)

====
